---------------------------- MODULE Spec2Model ----------------------------
(***************************************************************************)
(* Research assistant workflow (src/src): the bounded-retry state machine  *)
(* of graph.py, the six step functions of nodes.py, the language-model and *)
(* search wrappers of tools.py and the safety validators of safety.py.     *)
(*                                                                         *)
(* Text of the program (queries, urls, titles, contents, plans, drafts,     *)
(* error messages) is a sequence of one-character strings, so that lower(),*)
(* substring tests and regular expressions are computed on it; outcomes    *)
(* (current_step) and the fixed reasons of safety checks are strings.      *)
(* Floats that are only compared are kept in hundredths (0.9 is 90).       *)
(***************************************************************************)
EXTENDS Integers, Sequences, FiniteSets, TLC

\* ------------------------------------------------------------------------
\* Python str operations on character sequences
\* ------------------------------------------------------------------------
UpperAlpha == <<"A","B","C","D","E","F","G","H","I","J","K","L","M",
                "N","O","P","Q","R","S","T","U","V","W","X","Y","Z">>
LowerAlpha == <<"a","b","c","d","e","f","g","h","i","j","k","l","m",
                "n","o","p","q","r","s","t","u","v","w","x","y","z">>
DigitChars == <<"0","1","2","3","4","5","6","7","8","9">>

Range(seq) == {seq[i] : i \in DOMAIN seq}

UpperSet == Range(UpperAlpha)
LowerOf == [c \in UpperSet |-> LowerAlpha[CHOOSE i \in DOMAIN UpperAlpha : UpperAlpha[i] = c]]

\* str.lower() on one character
LowerChar(c) == IF c \in UpperSet THEN LowerOf[c] ELSE c

\* str.lower()
Lower(s) == [i \in DOMAIN s |-> LowerChar(s[i])]

\* s[i:] matches p at 1-based position i
MatchesAt(s, p, i) ==
    /\ i + Len(p) - 1 <= Len(s)
    /\ \A k \in 1..Len(p) : s[i + k - 1] = p[k]

\* p in s
Contains(s, p) == \E i \in 1..(Len(s) + 1) : MatchesAt(s, p, i)

\* s.startswith(p), s.endswith(p)
StartsWith(s, p) == MatchesAt(s, p, 1)
EndsWith(s, p) == Len(p) <= Len(s) /\ MatchesAt(s, p, Len(s) - Len(p) + 1)

\* s.find(c) for a single character, 0-based, -1 when absent
Find(s, c) ==
    IF \E i \in DOMAIN s : s[i] = c
    THEN (CHOOSE i \in DOMAIN s : s[i] = c /\ \A j \in 1..(i - 1) : s[j] # c) - 1
    ELSE -1

\* s[a:] (0-based a)
From(s, a) == SubSeq(s, a + 1, Len(s))

\* regex \w
WordChars == Range(UpperAlpha) \cup Range(LowerAlpha) \cup Range(DigitChars) \cup {"_"}
IsWordChar(c) == c \in WordChars

\* regex \b between s[i-1] and s[i] (1-based i in 1..Len(s)+1)
WordBoundary(s, i) ==
    LET before == i > 1 /\ IsWordChar(s[i - 1])
        after == i <= Len(s) /\ IsWordChar(s[i])
    IN before # after

\* sep.join(parts)
RECURSIVE Join(_, _)
Join(sep, parts) ==
    IF parts = <<>> THEN <<>>
    ELSE IF Len(parts) = 1 THEN parts[1]
    ELSE parts[1] \o sep \o Join(sep, Tail(parts))

\* list.extend, flattened over a list of lists
RECURSIVE Flatten(_)
Flatten(lists) ==
    IF lists = <<>> THEN <<>> ELSE Head(lists) \o Flatten(Tail(lists))

\* [x for x in seq if Test(x)]
RECURSIVE SelectSeqBy(_, _)
SelectSeqBy(seq, keep) ==
    IF seq = <<>> THEN <<>>
    ELSE (IF keep[1] THEN <<Head(seq)>> ELSE <<>>)
         \o SelectSeqBy(Tail(seq), Tail(keep))

Min(S) == CHOOSE x \in S : \A y \in S : x <= y
Max(S) == CHOOSE x \in S : \A y \in S : x >= y

IsPrefix(a, b) == Len(a) <= Len(b) /\ SubSeq(b, 1, Len(a)) = a

\* ------------------------------------------------------------------------
\* config.py
\* ------------------------------------------------------------------------
MAX_SEARCH_RESULTS == 10

\* Requests per minute the rate limiter allows; the model keeps the bucket small
RATE_LIMIT_REQUESTS_PER_MINUTE == 2

\* Config.TRUSTED_DOMAINS (the entries the modelled urls can hit)
TRUSTED_DOMAINS ==
    { (* "wikipedia.org" *) <<"w", "i", "k", "i", "p", "e", "d", "i", "a", ".", "o", "r", "g">>,
      (* "arxiv.org" *) <<"a", "r", "x", "i", "v", ".", "o", "r", "g">>,
      (* "mit.edu" *) <<"m", "i", "t", ".", "e", "d", "u">> }

BLOCKED_KEYWORDS ==
    << (* "violence" *) <<"v", "i", "o", "l", "e", "n", "c", "e">>, <<"h", "a", "t", "e">>, (* "harassment" *) <<"h", "a", "r", "a", "s", "s", "m", "e", "n", "t">>, (* "illegal" *) <<"i", "l", "l", "e", "g", "a", "l">>, (* "harmful" *) <<"h", "a", "r", "m", "f", "u", "l">>,
       (* "dangerous" *) <<"d", "a", "n", "g", "e", "r", "o", "u", "s">>, (* "explicit" *) <<"e", "x", "p", "l", "i", "c", "i", "t">>, <<"a", "d", "u", "l", "t">>, <<"n", "s", "f", "w">> >>

\* ------------------------------------------------------------------------
\* safety.py: SafetyCheck, URLValidator
\* ------------------------------------------------------------------------
SafetyCheck(is_safe, reason, confidence, flagged_content) ==
    [is_safe |-> is_safe, reason |-> reason, confidence |-> confidence,
     flagged_content |-> flagged_content]

SchemeChars ==
    Range(UpperAlpha) \cup Range(LowerAlpha) \cup Range(DigitChars) \cup {"+", "-", "."}

\* First position (0-based) in s of one of the characters of cs, Len(s) if none
FirstOf(s, cs) ==
    IF \E i \in DOMAIN s : s[i] \in cs
    THEN (CHOOSE i \in DOMAIN s : s[i] \in cs /\ \A j \in 1..(i - 1) : s[j] \notin cs) - 1
    ELSE Len(s)

\* urllib.parse.urlparse: the scheme and netloc it returns; it raises
\* ValueError("Invalid IPv6 URL") on a netloc with one bracket of a pair
urlparse(url) ==
    LET i == Find(url, ":")
        hasScheme ==
            /\ i > 0
            /\ url[1] \in Range(UpperAlpha) \cup Range(LowerAlpha)
            /\ \A k \in 1..i : url[k] \in SchemeChars
        scheme == IF hasScheme THEN Lower(SubSeq(url, 1, i)) ELSE <<>>
        rest == IF hasScheme THEN From(url, i + 1) ELSE url
        hasNetloc == StartsWith(rest, <<"/", "/">>)
        afterSlashes == From(rest, 2)
        netloc == IF hasNetloc
                  THEN SubSeq(afterSlashes, 1, FirstOf(afterSlashes, {"/", "?", "#"}))
                  ELSE <<>>
    IN [scheme |-> scheme, netloc |-> netloc,
        raised |-> ("[" \in Range(netloc)) # ("]" \in Range(netloc))]

is_trusted_domain(url) ==
    LET parsed == urlparse(url)
        lowered == Lower(parsed.netloc)
        domain == IF StartsWith(lowered, <<"w", "w", "w", ".">>) THEN From(lowered, 4) ELSE lowered
    IN IF parsed.raised THEN FALSE
       ELSE \E trusted \in TRUSTED_DOMAINS :
                domain = trusted \/ EndsWith(domain, <<".">> \o trusted)

validate_url(url) ==
    LET parsed == urlparse(url)
        is_trusted == is_trusted_domain(url)
    IN IF parsed.raised
       THEN SafetyCheck(FALSE, "URL validation error: Invalid IPv6 URL", 100, <<url>>)
       ELSE IF parsed.scheme = <<>> \/ parsed.netloc = <<>>
       THEN SafetyCheck(FALSE, "Invalid URL structure", 100, <<url>>)
       ELSE IF parsed.scheme \notin { <<"h", "t", "t", "p">>, <<"h", "t", "t", "p", "s">> }
       THEN SafetyCheck(FALSE, "Unsupported protocol", 100, <<parsed.scheme>>)
       ELSE SafetyCheck(is_trusted,
                        IF is_trusted THEN "Trusted domain" ELSE "Untrusted domain",
                        IF is_trusted THEN 90 ELSE 30,
                        IF is_trusted THEN <<>> ELSE <<parsed.netloc>>)

\* ------------------------------------------------------------------------
\* safety.py: ContentModerationChain
\* ------------------------------------------------------------------------
\* The alternatives of each \b(?:a|b|...)\b pattern, in order
suspicious_patterns ==
    << << <<"h", "a", "c", "k">>, <<"c", "r", "a", "c", "k">>, (* "pirate" *) <<"p", "i", "r", "a", "t", "e">>, (* "illegal" *) <<"i", "l", "l", "e", "g", "a", "l">> >>,
       << (* "violence" *) <<"v", "i", "o", "l", "e", "n", "c", "e">>, (* "violent" *) <<"v", "i", "o", "l", "e", "n", "t">>, <<"k", "i", "l", "l">>, (* "murder" *) <<"m", "u", "r", "d", "e", "r">> >>,
       << <<"h", "a", "t", "e">>, (* "racist" *) <<"r", "a", "c", "i", "s", "t">>, (* "discrimination" *) <<"d", "i", "s", "c", "r", "i", "m", "i", "n", "a", "t", "i", "o", "n">> >>,
       << (* "explicit" *) <<"e", "x", "p", "l", "i", "c", "i", "t">>, <<"a", "d", "u", "l", "t">>, <<"n", "s", "f", "w">>, <<"p", "o", "r", "n">> >> >>

\* The alternative of alts that \b(?:alts)\b matches at position i, <<>> if none
MatchAt(alts, s, i) ==
    IF ~WordBoundary(s, i) THEN <<>>
    ELSE LET hits == {k \in DOMAIN alts :
                         /\ MatchesAt(s, alts[k], i)
                         /\ WordBoundary(s, i + Len(alts[k]))}
         IN IF hits = {} THEN <<>> ELSE alts[Min(hits)]

\* re.findall(pattern, s): the matches from left to right.  A match of
\* \b(?:alts)\b is a whole word, so no two matches overlap and the scan
\* finds exactly the positions where the pattern matches.
findall(alts, s) ==
    SelectSeq([i \in 1..Len(s) |-> MatchAt(alts, s, i)], LAMBDA m : m # <<>>)

\* The keyword scan alone, the patterns never tried
moderate_content_keywords_only(content) ==
    IF content = <<>>
    THEN SafetyCheck(TRUE, "Empty content", 100, <<>>)
    ELSE LET content_lower == Lower(content)
             flagged_content == SelectSeqBy(BLOCKED_KEYWORDS,
                                    [k \in DOMAIN BLOCKED_KEYWORDS |->
                                        Contains(content_lower, BLOCKED_KEYWORDS[k])])
             is_safe == Len(flagged_content) = 0
         IN SafetyCheck(is_safe,
                        IF is_safe THEN "Content passed moderation"
                                   ELSE "Content flagged for review",
                        IF is_safe THEN 80 ELSE 90,
                        flagged_content)

moderate_content(content) ==
    IF content = <<>>
    THEN SafetyCheck(TRUE, "Empty content", 100, <<>>)
    ELSE LET content_lower == Lower(content)
             keywords == SelectSeqBy(BLOCKED_KEYWORDS,
                             [k \in DOMAIN BLOCKED_KEYWORDS |->
                                 Contains(content_lower, BLOCKED_KEYWORDS[k])])
             matches == Flatten([p \in DOMAIN suspicious_patterns |->
                                    findall(suspicious_patterns[p], content_lower)])
             flagged_content == keywords \o matches
             is_safe == Len(flagged_content) = 0
         IN SafetyCheck(is_safe,
                        IF is_safe THEN "Content passed moderation"
                                   ELSE "Content flagged for review",
                        IF is_safe THEN 80 ELSE 90,
                        flagged_content)

\* ------------------------------------------------------------------------
\* safety.py: SafetyValidator
\* ------------------------------------------------------------------------
validate_search_results(results) ==
    Flatten([i \in DOMAIN results |->
                << validate_url(results[i].url),
                   moderate_content(results[i].content),
                   moderate_content(results[i].title) >>])

validate_final_output(content) == moderate_content(content)

\* list(set(xs)): the distinct elements, in an order Python does not fix
RECURSIVE SetToSeq(_)
SetToSeq(S) ==
    IF S = {} THEN <<>>
    ELSE LET x == CHOOSE x \in S : TRUE IN <<x>> \o SetToSeq(S \ {x})

FailedReason(n) == "Failed " \o ToString(n) \o " safety checks"

\* Every check's confidence and flagged content counted, safe or not
aggregate_all_checks(checks) ==
    IF checks = <<>>
    THEN SafetyCheck(TRUE, "No checks performed", 50, <<>>)
    ELSE IF \A k \in DOMAIN checks : checks[k].is_safe
    THEN SafetyCheck(TRUE, "All safety checks passed",
                     Min({checks[k].confidence : k \in DOMAIN checks}), <<>>)
    ELSE SafetyCheck(FALSE, FailedReason(Len(checks)),
                     Max({checks[k].confidence : k \in DOMAIN checks}),
                     SetToSeq(Range(Flatten(
                         [k \in DOMAIN checks |-> checks[k].flagged_content]))))

aggregate_safety_checks(checks) ==
    IF checks = <<>>
    THEN SafetyCheck(TRUE, "No checks performed", 50, <<>>)
    ELSE LET unsafe_checks == SelectSeqBy(checks,
                                  [k \in DOMAIN checks |-> ~checks[k].is_safe])
         IN IF unsafe_checks = <<>>
            THEN SafetyCheck(TRUE, "All safety checks passed",
                             Min({checks[k].confidence : k \in DOMAIN checks}), <<>>)
            ELSE SafetyCheck(FALSE, FailedReason(Len(unsafe_checks)),
                     Max({unsafe_checks[k].confidence : k \in DOMAIN unsafe_checks}),
                     SetToSeq(Range(Flatten(
                         [k \in DOMAIN unsafe_checks |->
                             unsafe_checks[k].flagged_content]))))


\* ------------------------------------------------------------------------
\* safety.py: TokenBucket.  Token amounts are counted in parts of a token
\* (Whole parts make one token) and time in clock ticks; refill_rate is in
\* parts per tick.  Float arithmetic is taken as exact.
\* ------------------------------------------------------------------------
Whole == 2

\* __init__ at clock reading t
TokenBucket(capacity, refill_rate, t) ==
    [capacity |-> capacity, tokens |-> capacity, refill_rate |-> refill_rate,
     last_refill |-> t, lock |-> "free"]

\* tokens_to_add = (now - self.last_refill) * self.refill_rate
tokens_to_add(self, now_) == (now_ - self.last_refill) * self.refill_rate

\* consume without the cap at capacity
consume_uncapped(self, tokens_, now_) ==
    LET filled == [self EXCEPT !.tokens = self.tokens + tokens_to_add(self, now_),
                               !.last_refill = now_]
    IN IF filled.tokens >= tokens_
       THEN [self |-> [filled EXCEPT !.tokens = @ - tokens_], result |-> TRUE]
       ELSE [self |-> filled, result |-> FALSE]

\* consume(tokens) at clock reading now_, the body under the lock
consume(self, tokens_, now_) ==
    LET filled == [self EXCEPT
                      !.tokens = Min({self.capacity, self.tokens + tokens_to_add(self, now_)}),
                      !.last_refill = now_]
    IN IF filled.tokens >= tokens_
       THEN [self |-> [filled EXCEPT !.tokens = @ - tokens_], result |-> TRUE]
       ELSE [self |-> filled, result |-> FALSE]

\* A float quotient, kept as a fraction
Quotient(num, den) == [num |-> num, den |-> den]

\* wait_time(tokens), the body under the lock; 0.0 is 0 / 1
wait_time(self, tokens_) ==
    IF self.tokens >= tokens_
    THEN Quotient(0, 1)
    ELSE LET needed_tokens == tokens_ - self.tokens
         IN Quotient(needed_tokens, self.refill_rate)
\* ------------------------------------------------------------------------
\* Outcome of a call: it returns a value or raises an exception
\* ------------------------------------------------------------------------
Returned(v) == [raised |-> FALSE, value |-> v, error |-> <<>>]
Raised(e) == [raised |-> TRUE, value |-> <<>>, error |-> e]

\* str(e) of the exceptions the collaborators and the graph runtime raise
ApiError == (* "api down" *) <<"a", "p", "i", " ", "d", "o", "w", "n">>

\* ------------------------------------------------------------------------
\* state.py: SearchResult and the structured outputs; the model's inputs
\* ------------------------------------------------------------------------
SearchResult(url, title, content, score) ==
    [url |-> url, title |-> title, content |-> content, score |-> score]

\* Research queries a run is started with
Queries == { (* "ai agents" *) <<"a", "i", " ", "a", "g", "e", "n", "t", "s">>, (* "adult learning" *) <<"a", "d", "u", "l", "t", " ", "l", "e", "a", "r", "n", "i", "n", "g">> }

\* Items the search provider returns: a trusted clean page, an untrusted
\* page with the best score, and a second hit on the first url whose title
\* is flagged
ItemClean == SearchResult((* "https://arxiv.org/a" *) <<"h", "t", "t", "p", "s", ":", "/", "/", "a", "r", "x", "i", "v", ".", "o", "r", "g", "/", "a">>, (* "Agents" *) <<"A", "g", "e", "n", "t", "s">>, (* "a survey" *) <<"a", " ", "s", "u", "r", "v", "e", "y">>, 80)
ItemUntrusted == SearchResult((* "http://evil.com/" *) <<"h", "t", "t", "p", ":", "/", "/", "e", "v", "i", "l", ".", "c", "o", "m", "/">>, <<"B", "l", "o", "g">>, (* "a post" *) <<"a", " ", "p", "o", "s", "t">>, 95)
ItemFlagged == SearchResult((* "https://arxiv.org/a" *) <<"h", "t", "t", "p", "s", ":", "/", "/", "a", "r", "x", "i", "v", ".", "o", "r", "g", "/", "a">>, (* "Kill switch" *) <<"K", "i", "l", "l", " ", "s", "w", "i", "t", "c", "h">>, (* "a note" *) <<"a", " ", "n", "o", "t", "e">>, 90)

\* client.search(...): the provider fails or answers with a result list
ProviderResponses ==
    { Raised(ApiError),
      Returned(<<>>),
      Returned(<<ItemClean>>),
      Returned(<<ItemUntrusted, ItemFlagged>>) }

\* What the language model answers: its text either carries a fenced JSON
\* block (fenced, with the decoded object or BadJson when json.loads or
\* the output type rejects it) or is prose (with the parts the line parser
\* picks out of it)
BadJson == [bad |-> TRUE]
\* text[:500] of a reply whose JSON block does not decode
BadJsonText == (* "json {" *) <<"j", "s", "o", "n", " ", "{">>
Fenced(data) == [fenced |-> TRUE, data |-> data]
Prose(parts) == [fenced |-> FALSE, data |-> parts]

PlanningOutput(research_plan, search_queries) ==
    [research_plan |-> research_plan, search_queries |-> search_queries]

SynthesisOutput(summary, findings, used, confidence, recommendations) ==
    [research_summary |-> summary, key_findings |-> findings,
     sources_used |-> used, confidence_level |-> confidence,
     recommendations |-> recommendations]

ReflexionOutput(critique, suggestions, revised_plan, should_retry) ==
    [critique |-> critique, improvement_suggestions |-> suggestions,
     revised_plan |-> revised_plan, should_retry |-> should_retry]

PlanReplies ==
    { Raised(ApiError),
      Returned(Fenced(PlanningOutput((* "three steps" *) <<"t", "h", "r", "e", "e", " ", "s", "t", "e", "p", "s">>,
                 << (* "agents" *) <<"a", "g", "e", "n", "t", "s">>, (* "agent tools" *) <<"a", "g", "e", "n", "t", " ", "t", "o", "o", "l", "s">>, (* "agent memory" *) <<"a", "g", "e", "n", "t", " ", "m", "e", "m", "o", "r", "y">>, (* "agent evals" *) <<"a", "g", "e", "n", "t", " ", "e", "v", "a", "l", "s">> >>))),
      Returned(Fenced(PlanningOutput((* "no search" *) <<"n", "o", " ", "s", "e", "a", "r", "c", "h">>, <<>>))),
      Returned(Prose(PlanningOutput(<<>>, <<>>))) }

SynthesisReplies ==
    { Raised(ApiError),
      Returned(Fenced(SynthesisOutput((* "Agents plan and act." *) <<"A", "g", "e", "n", "t", "s", " ", "p", "l", "a", "n", " ", "a", "n", "d", " ", "a", "c", "t", ".">>, << (* "tools help" *) <<"t", "o", "o", "l", "s", " ", "h", "e", "l", "p">> >>,
                 << <<"a", "r", "x", "i", "v">> >>, 85, << (* "read more" *) <<"r", "e", "a", "d", " ", "m", "o", "r", "e">> >>))),
      Returned(Fenced(SynthesisOutput((* "How to hack a model." *) <<"H", "o", "w", " ", "t", "o", " ", "h", "a", "c", "k", " ", "a", " ", "m", "o", "d", "e", "l", ".">>, << (* "tools help" *) <<"t", "o", "o", "l", "s", " ", "h", "e", "l", "p">> >>,
                 << <<"a", "r", "x", "i", "v">> >>, 90, <<>>))) }

ReflexionReplies ==
    { Raised(ApiError),
      Returned(Fenced(ReflexionOutput((* "too narrow" *) <<"t", "o", "o", " ", "n", "a", "r", "r", "o", "w">>, << (* "broaden" *) <<"b", "r", "o", "a", "d", "e", "n">> >>, <<>>, TRUE))),
      Returned(Fenced(ReflexionOutput((* "hopeless" *) <<"h", "o", "p", "e", "l", "e", "s", "s">>, <<>>, <<"s", "t", "o", "p">>, FALSE))),
      Returned(Prose((* "Please retry." *) <<"P", "l", "e", "a", "s", "e", " ", "r", "e", "t", "r", "y", ".">>)) }

\* ------------------------------------------------------------------------
\* tools.py: StructuredOutputParser
\* ------------------------------------------------------------------------
OrElse(text, default) == IF text = <<>> THEN default ELSE text

parse_planning_output(text) ==
    IF text.fenced
    THEN IF text.data = BadJson
         THEN PlanningOutput((* "Comprehensive research on the given topic" *) <<"C", "o", "m", "p", "r", "e", "h", "e", "n", "s", "i", "v", "e", " ", "r", "e", "s", "e", "a", "r", "c", "h", " ", "o", "n", " ", "t", "h", "e", " ", "g", "i", "v", "e", "n", " ", "t", "o", "p", "i", "c">>,
                             << (* "main research query" *) <<"m", "a", "i", "n", " ", "r", "e", "s", "e", "a", "r", "c", "h", " ", "q", "u", "e", "r", "y">> >>)
         ELSE text.data
    ELSE PlanningOutput(OrElse(text.data.research_plan, (* "Comprehensive research plan" *) <<"C", "o", "m", "p", "r", "e", "h", "e", "n", "s", "i", "v", "e", " ", "r", "e", "s", "e", "a", "r", "c", "h", " ", "p", "l", "a", "n">>),
                        OrElse(text.data.search_queries, << (* "main research query" *) <<"m", "a", "i", "n", " ", "r", "e", "s", "e", "a", "r", "c", "h", " ", "q", "u", "e", "r", "y">> >>))

parse_synthesis_output(text) ==
    IF text.fenced
    THEN IF text.data = BadJson
         THEN SynthesisOutput(BadJsonText, << (* "Analysis completed" *) <<"A", "n", "a", "l", "y", "s", "i", "s", " ", "c", "o", "m", "p", "l", "e", "t", "e", "d">> >>,
                              << (* "multiple sources" *) <<"m", "u", "l", "t", "i", "p", "l", "e", " ", "s", "o", "u", "r", "c", "e", "s">> >>, 70, << (* "Review findings" *) <<"R", "e", "v", "i", "e", "w", " ", "f", "i", "n", "d", "i", "n", "g", "s">> >>)
         ELSE text.data
    ELSE SynthesisOutput(text.data, << (* "Key finding extracted from research" *) <<"K", "e", "y", " ", "f", "i", "n", "d", "i", "n", "g", " ", "e", "x", "t", "r", "a", "c", "t", "e", "d", " ", "f", "r", "o", "m", " ", "r", "e", "s", "e", "a", "r", "c", "h">> >>,
                         << (* "research sources" *) <<"r", "e", "s", "e", "a", "r", "c", "h", " ", "s", "o", "u", "r", "c", "e", "s">> >>, 80,
                         << (* "Further research recommended" *) <<"F", "u", "r", "t", "h", "e", "r", " ", "r", "e", "s", "e", "a", "r", "c", "h", " ", "r", "e", "c", "o", "m", "m", "e", "n", "d", "e", "d">> >>)

parse_reflexion_output(text) ==
    IF text.fenced
    THEN IF text.data = BadJson
         THEN ReflexionOutput((* "Analysis of previous attempt" *) <<"A", "n", "a", "l", "y", "s", "i", "s", " ", "o", "f", " ", "p", "r", "e", "v", "i", "o", "u", "s", " ", "a", "t", "t", "e", "m", "p", "t">>,
                              << (* "General improvements" *) <<"G", "e", "n", "e", "r", "a", "l", " ", "i", "m", "p", "r", "o", "v", "e", "m", "e", "n", "t", "s">> >>, (* "Revised approach" *) <<"R", "e", "v", "i", "s", "e", "d", " ", "a", "p", "p", "r", "o", "a", "c", "h">>, FALSE)
         ELSE text.data
    ELSE ReflexionOutput(text.data, << (* "Suggestions for improvement" *) <<"S", "u", "g", "g", "e", "s", "t", "i", "o", "n", "s", " ", "f", "o", "r", " ", "i", "m", "p", "r", "o", "v", "e", "m", "e", "n", "t">> >>,
                         (* "Revised approach based on critique" *) <<"R", "e", "v", "i", "s", "e", "d", " ", "a", "p", "p", "r", "o", "a", "c", "h", " ", "b", "a", "s", "e", "d", " ", "o", "n", " ", "c", "r", "i", "t", "i", "q", "u", "e">>,
                         Contains(Lower(text.data), <<"r", "e", "t", "r", "y">>)
                             \/ Contains(Lower(text.data), (* "try again" *) <<"t", "r", "y", " ", "a", "g", "a", "i", "n">>))

\* ------------------------------------------------------------------------
\* tools.py: TavilySearchTool.search and GeminiLLM, given what the client did
\* ------------------------------------------------------------------------
\* search without its try/except: the provider's exception gets out
search_uncaught(response) == response

search(response) ==
    IF response.raised THEN Returned(<<>>) ELSE Returned(response.value)

generate_plan(query, reply) ==
    IF reply.raised
    THEN Returned(PlanningOutput((* "Research plan for: " *) <<"R", "e", "s", "e", "a", "r", "c", "h", " ", "p", "l", "a", "n", " ", "f", "o", "r", ":", " ">> \o query, <<query>>))
    ELSE Returned(parse_planning_output(reply.value))

synthesize_research(query, sources, reply) ==
    IF reply.raised
    THEN Returned(SynthesisOutput((* "Research synthesis completed" *) <<"R", "e", "s", "e", "a", "r", "c", "h", " ", "s", "y", "n", "t", "h", "e", "s", "i", "s", " ", "c", "o", "m", "p", "l", "e", "t", "e", "d">>,
                      << (* "Key insights gathered" *) <<"K", "e", "y", " ", "i", "n", "s", "i", "g", "h", "t", "s", " ", "g", "a", "t", "h", "e", "r", "e", "d">> >>,
                      [i \in 1..Min({3, Len(sources)}) |-> sources[i].url],
                      70, << (* "Further analysis recommended" *) <<"F", "u", "r", "t", "h", "e", "r", " ", "a", "n", "a", "l", "y", "s", "i", "s", " ", "r", "e", "c", "o", "m", "m", "e", "n", "d", "e", "d">> >>))
    ELSE Returned(parse_synthesis_output(reply.value))

perform_reflexion(query, previous_attempt, error_context, reply) ==
    IF reply.raised
    THEN Returned(ReflexionOutput((* "Analysis of previous attempt" *) <<"A", "n", "a", "l", "y", "s", "i", "s", " ", "o", "f", " ", "p", "r", "e", "v", "i", "o", "u", "s", " ", "a", "t", "t", "e", "m", "p", "t">>,
                      << (* "Retry with different approach" *) <<"R", "e", "t", "r", "y", " ", "w", "i", "t", "h", " ", "d", "i", "f", "f", "e", "r", "e", "n", "t", " ", "a", "p", "p", "r", "o", "a", "c", "h">> >>,
                      (* "Adjusted research strategy" *) <<"A", "d", "j", "u", "s", "t", "e", "d", " ", "r", "e", "s", "e", "a", "r", "c", "h", " ", "s", "t", "r", "a", "t", "e", "g", "y">>, TRUE))
    ELSE Returned(parse_reflexion_output(reply.value))

\* ------------------------------------------------------------------------
\* nodes.py: the six step functions.  Each takes the state and the outcome
\* of the call it awaits (on self.llm, self.search_tool or
\* self.safety_validator) and returns the state or lets an exception out.
\* ------------------------------------------------------------------------
NodeReturn(s) == [raised |-> FALSE, state |-> s, error |-> <<>>]
NodeRaise(s, e) == [raised |-> TRUE, state |-> s, error |-> e]

\* datetime.now() as the program formats it: when the state is created,
\* when a plan is made, when a draft is written
CreatedAt == <<"T", "0">>
PlannedAt == <<"T", "1">>
DraftedAt == (* "2025-01-01 00:00:00" *) <<"2", "0", "2", "5", "-", "0", "1", "-", "0", "1", " ", "0", "0", ":", "0", "0", ":", "0", "0">>

create_initial_state(research_query, MAX_RETRIES_) ==
    [research_query |-> research_query,
     plan |-> <<>>,
     sources |-> <<>>,
     draft |-> <<>>,
     safety_checks |-> <<>>,
     is_safe |-> TRUE,
     current_step |-> "initialized",
     retry_count |-> 0,
     max_retries |-> MAX_RETRIES_,
     critique |-> <<>>,
     improvements |-> <<>>,
     timestamp |-> CreatedAt,
     request_id |-> <<"u", "u", "i", "d", "4">>,
     errors |-> <<>>,
     warnings |-> <<>>,
     search_queries |-> <<>>]

\* The except branch shared by the six nodes: errors.append(f"{what}: {e}")
Failed(state, what, e, failed_step) ==
    [state EXCEPT !.errors = Append(@, what \o e),
                  !.current_step = failed_step]

\* plan_node without its try/except: the exception of the call gets out
plan_node_uncaught(state, call) ==
    IF call.raised
    THEN NodeRaise(state, call.error)
    ELSE NodeReturn([state EXCEPT !.plan = call.value.research_plan,
                                  !.current_step = "planning_complete",
                                  !.timestamp = PlannedAt,
                                  !.search_queries = call.value.search_queries])

plan_node(state, call) ==
    IF call.raised
    THEN NodeReturn(Failed(state, (* "Planning failed: " *) <<"P", "l", "a", "n", "n", "i", "n", "g", " ", "f", "a", "i", "l", "e", "d", ":", " ">>, call.error, "planning_failed"))
    ELSE NodeReturn([state EXCEPT !.plan = call.value.research_plan,
                                  !.current_step = "planning_complete",
                                  !.timestamp = PlannedAt,
                                  !.search_queries = call.value.search_queries])

\* The queries the loop of search_node iterates over: search_queries[:3]
SearchedQueries(state) ==
    SubSeq(state.search_queries, 1, Min({3, Len(state.search_queries)}))

\* max_results of each search call
MaxResultsPerQuery(state) == MAX_SEARCH_RESULTS \div Len(state.search_queries)

\* Remove duplicates based on URL, the first occurrence wins
RECURSIVE Unique(_, _)
Unique(results, seen_urls) ==
    IF results = <<>> THEN <<>>
    ELSE IF Head(results).url \in seen_urls
    THEN Unique(Tail(results), seen_urls)
    ELSE <<Head(results)>> \o Unique(Tail(results), seen_urls \cup {Head(results).url})

\* list.sort(key=score, reverse=True): stable, equal scores keep their order
RECURSIVE InsertByScore(_, _)
InsertByScore(sorted, x) ==
    IF sorted = <<>> THEN <<x>>
    ELSE IF Head(sorted).score >= x.score
    THEN <<Head(sorted)>> \o InsertByScore(Tail(sorted), x)
    ELSE <<x>> \o sorted

RECURSIVE SortByScore(_)
SortByScore(results) ==
    IF results = <<>> THEN <<>>
    ELSE InsertByScore(SortByScore(SubSeq(results, 1, Len(results) - 1)),
                       results[Len(results)])

\* lst[:n]
Take(lst, n) == SubSeq(lst, 1, Min({n, Len(lst)}))

\* search_node that keeps every result, also those whose url was seen
search_node_keeps_duplicates(state, calls) ==
    LET n == Len(SearchedQueries(state))
        failing == {k \in 1..n : calls[k].raised}
    IN IF failing # {}
       THEN NodeReturn(Failed(state, (* "Search failed: " *) <<"S", "e", "a", "r", "c", "h", " ", "f", "a", "i", "l", "e", "d", ":", " ">>, calls[Min(failing)].error,
                              "search_failed"))
       ELSE LET all_results == Flatten([k \in 1..n |-> calls[k].value])
            IN NodeReturn([state EXCEPT
                   !.sources = Take(SortByScore(all_results), MAX_SEARCH_RESULTS),
                   !.current_step = "search_complete"])

search_node(state, calls) ==
    LET n == Len(SearchedQueries(state))
        failing == {k \in 1..n : calls[k].raised}
    IN IF failing # {}
       THEN NodeReturn(Failed(state, (* "Search failed: " *) <<"S", "e", "a", "r", "c", "h", " ", "f", "a", "i", "l", "e", "d", ":", " ">>, calls[Min(failing)].error,
                              "search_failed"))
       ELSE LET all_results == Flatten([k \in 1..n |-> calls[k].value])
                unique_results == SortByScore(Unique(all_results, {}))
            IN NodeReturn([state EXCEPT
                   !.sources = Take(unique_results, MAX_SEARCH_RESULTS),
                   !.current_step = "search_complete"])

\* validate_node that judges a source by its URL check alone
validate_node_by_url(state, call) ==
    IF call.raised
    THEN NodeReturn(Failed(state, (* "Validation failed: " *) <<"V", "a", "l", "i", "d", "a", "t", "i", "o", "n", " ", "f", "a", "i", "l", "e", "d", ":", " ">>, call.error, "validation_failed"))
    ELSE LET safety_checks == call.value
             keep == [i \in DOMAIN state.sources |->
                         aggregate_safety_checks(
                             SubSeq(safety_checks, 3 * (i - 1) + 1,
                                    Min({3 * (i - 1) + 1, Len(safety_checks)}))).is_safe]
         IN NodeReturn([state EXCEPT
                !.sources = SelectSeqBy(state.sources, keep),
                !.safety_checks = safety_checks,
                !.current_step = "validation_complete"])

validate_node(state, call) ==
    IF call.raised
    THEN NodeReturn(Failed(state, (* "Validation failed: " *) <<"V", "a", "l", "i", "d", "a", "t", "i", "o", "n", " ", "f", "a", "i", "l", "e", "d", ":", " ">>, call.error, "validation_failed"))
    ELSE LET safety_checks == call.value
             keep == [i \in DOMAIN state.sources |->
                         aggregate_safety_checks(
                             SubSeq(safety_checks, 3 * (i - 1) + 1,
                                    Min({3 * i, Len(safety_checks)}))).is_safe]
         IN NodeReturn([state EXCEPT
                !.sources = SelectSeqBy(state.sources, keep),
                !.safety_checks = safety_checks,
                !.current_step = "validation_complete"])

\* f"{x:.2f}" of a confidence kept in hundredths
Fmt2(x) ==
    << DigitChars[(x \div 100) + 1], ".",
       DigitChars[((x \div 10) % 10) + 1], DigitChars[(x % 10) + 1] >>

\* The bullet U+2022 of the draft, written with an ASCII character that is
\* no word character either
Bullet == "*"

Bullets(items) == Join(<<"\n">>, [i \in DOMAIN items |-> <<Bullet, " ">> \o items[i]])

\* The document with a heading that leaves the query out
Draft_without_query(research_query, out) ==
    (* "# Research Summary: " *) <<"#", " ", "R", "e", "s", "e", "a", "r", "c", "h", " ", "S", "u", "m", "m", "a", "r", "y", ":", " ">>
    \o (* "\n\n## Overview\n" *) <<"\n", "\n", "#", "#", " ", "O", "v", "e", "r", "v", "i", "e", "w", "\n">> \o out.research_summary
    \o (* "\n\n## Key Findings\n" *) <<"\n", "\n", "#", "#", " ", "K", "e", "y", " ", "F", "i", "n", "d", "i", "n", "g", "s", "\n">> \o Bullets(out.key_findings)
    \o (* "\n\n## Sources\n" *) <<"\n", "\n", "#", "#", " ", "S", "o", "u", "r", "c", "e", "s", "\n">> \o Bullets(out.sources_used)
    \o (* "\n\n## Confidence Level\n" *) <<"\n", "\n", "#", "#", " ", "C", "o", "n", "f", "i", "d", "e", "n", "c", "e", " ", "L", "e", "v", "e", "l", "\n">> \o Fmt2(out.confidence_level) \o (* " (out of 1.0)" *) <<" ", "(", "o", "u", "t", " ", "o", "f", " ", "1", ".", "0", ")">>
    \o (* "\n\n## Recommendations\n" *) <<"\n", "\n", "#", "#", " ", "R", "e", "c", "o", "m", "m", "e", "n", "d", "a", "t", "i", "o", "n", "s", "\n">> \o Bullets(out.recommendations)
    \o (* "\n\n---\n*Research completed at " *) <<"\n", "\n", "-", "-", "-", "\n", "*", "R", "e", "s", "e", "a", "r", "c", "h", " ", "c", "o", "m", "p", "l", "e", "t", "e", "d", " ", "a", "t", " ">> \o DraftedAt \o <<"*", "\n">>

\* The Markdown document of synthesize_node
Draft(research_query, out) ==
    (* "# Research Summary: " *) <<"#", " ", "R", "e", "s", "e", "a", "r", "c", "h", " ", "S", "u", "m", "m", "a", "r", "y", ":", " ">> \o research_query
    \o (* "\n\n## Overview\n" *) <<"\n", "\n", "#", "#", " ", "O", "v", "e", "r", "v", "i", "e", "w", "\n">> \o out.research_summary
    \o (* "\n\n## Key Findings\n" *) <<"\n", "\n", "#", "#", " ", "K", "e", "y", " ", "F", "i", "n", "d", "i", "n", "g", "s", "\n">> \o Bullets(out.key_findings)
    \o (* "\n\n## Sources\n" *) <<"\n", "\n", "#", "#", " ", "S", "o", "u", "r", "c", "e", "s", "\n">> \o Bullets(out.sources_used)
    \o (* "\n\n## Confidence Level\n" *) <<"\n", "\n", "#", "#", " ", "C", "o", "n", "f", "i", "d", "e", "n", "c", "e", " ", "L", "e", "v", "e", "l", "\n">> \o Fmt2(out.confidence_level) \o (* " (out of 1.0)" *) <<" ", "(", "o", "u", "t", " ", "o", "f", " ", "1", ".", "0", ")">>
    \o (* "\n\n## Recommendations\n" *) <<"\n", "\n", "#", "#", " ", "R", "e", "c", "o", "m", "m", "e", "n", "d", "a", "t", "i", "o", "n", "s", "\n">> \o Bullets(out.recommendations)
    \o (* "\n\n---\n*Research completed at " *) <<"\n", "\n", "-", "-", "-", "\n", "*", "R", "e", "s", "e", "a", "r", "c", "h", " ", "c", "o", "m", "p", "l", "e", "t", "e", "d", " ", "a", "t", " ">> \o DraftedAt \o <<"*", "\n">>

\* synthesize_node that empties the draft when there are no sources
synthesize_node_clears_draft(state, call) ==
    IF state.sources = <<>>
    THEN NodeReturn([Failed(state, (* "Synthesis failed: " *) <<"S", "y", "n", "t", "h", "e", "s", "i", "s", " ", "f", "a", "i", "l", "e", "d", ":", " ">>,
                           (* "No sources available for synthesis" *) <<"N", "o", " ", "s", "o", "u", "r", "c", "e", "s", " ", "a", "v", "a", "i", "l", "a", "b", "l", "e", " ", "f", "o", "r", " ", "s", "y", "n", "t", "h", "e", "s", "i", "s">>, "synthesis_failed") EXCEPT !.draft = <<>>])
    ELSE IF call.raised
    THEN NodeReturn(Failed(state, (* "Synthesis failed: " *) <<"S", "y", "n", "t", "h", "e", "s", "i", "s", " ", "f", "a", "i", "l", "e", "d", ":", " ">>, call.error, "synthesis_failed"))
    ELSE NodeReturn([state EXCEPT !.draft = Draft(state.research_query, call.value),
                                  !.current_step = "synthesis_complete"])

synthesize_node(state, call) ==
    IF state.sources = <<>>
    THEN NodeReturn(Failed(state, (* "Synthesis failed: " *) <<"S", "y", "n", "t", "h", "e", "s", "i", "s", " ", "f", "a", "i", "l", "e", "d", ":", " ">>,
                           (* "No sources available for synthesis" *) <<"N", "o", " ", "s", "o", "u", "r", "c", "e", "s", " ", "a", "v", "a", "i", "l", "a", "b", "l", "e", " ", "f", "o", "r", " ", "s", "y", "n", "t", "h", "e", "s", "i", "s">>, "synthesis_failed"))
    ELSE IF call.raised
    THEN NodeReturn(Failed(state, (* "Synthesis failed: " *) <<"S", "y", "n", "t", "h", "e", "s", "i", "s", " ", "f", "a", "i", "l", "e", "d", ":", " ">>, call.error, "synthesis_failed"))
    ELSE NodeReturn([state EXCEPT !.draft = Draft(state.research_query, call.value),
                                  !.current_step = "synthesis_complete"])

\* safety_node that does not copy the flagged content into warnings
safety_node_no_warnings(state, call) ==
    IF call.raised
    THEN NodeReturn([Failed(state, (* "Safety validation failed: " *) <<"S", "a", "f", "e", "t", "y", " ", "v", "a", "l", "i", "d", "a", "t", "i", "o", "n", " ", "f", "a", "i", "l", "e", "d", ":", " ">>, call.error,
                            "safety_validation_failed") EXCEPT !.is_safe = FALSE])
    ELSE LET final_check == call.value
         IN NodeReturn([state EXCEPT
                !.is_safe = final_check.is_safe,
                !.safety_checks = Append(@, final_check),
                !.current_step = IF final_check.is_safe THEN "completed"
                                                         ELSE "safety_failed"])

\* safety_node that reports completed whatever the verdict
safety_node_always_completed(state, call) ==
    IF call.raised
    THEN NodeReturn([Failed(state, (* "Safety validation failed: " *) <<"S", "a", "f", "e", "t", "y", " ", "v", "a", "l", "i", "d", "a", "t", "i", "o", "n", " ", "f", "a", "i", "l", "e", "d", ":", " ">>, call.error,
                            "safety_validation_failed") EXCEPT !.is_safe = FALSE])
    ELSE LET final_check == call.value
         IN NodeReturn([state EXCEPT
                !.is_safe = final_check.is_safe,
                !.safety_checks = Append(@, final_check),
                !.current_step = "completed",
                !.warnings = IF final_check.is_safe THEN @
                             ELSE @ \o final_check.flagged_content])

\* safety_node that does not record the final check
safety_node_check_unrecorded(state, call) ==
    IF call.raised
    THEN NodeReturn([Failed(state, (* "Safety validation failed: " *) <<"S", "a", "f", "e", "t", "y", " ", "v", "a", "l", "i", "d", "a", "t", "i", "o", "n", " ", "f", "a", "i", "l", "e", "d", ":", " ">>, call.error,
                            "safety_validation_failed") EXCEPT !.is_safe = FALSE])
    ELSE LET final_check == call.value
         IN NodeReturn([state EXCEPT
                !.is_safe = final_check.is_safe,
                !.safety_checks = @,
                !.current_step = IF final_check.is_safe THEN "completed"
                                                         ELSE "safety_failed",
                !.warnings = IF final_check.is_safe THEN @
                             ELSE @ \o final_check.flagged_content])

safety_node(state, call) ==
    IF call.raised
    THEN NodeReturn([Failed(state, (* "Safety validation failed: " *) <<"S", "a", "f", "e", "t", "y", " ", "v", "a", "l", "i", "d", "a", "t", "i", "o", "n", " ", "f", "a", "i", "l", "e", "d", ":", " ">>, call.error,
                            "safety_validation_failed") EXCEPT !.is_safe = FALSE])
    ELSE LET final_check == call.value
         IN NodeReturn([state EXCEPT
                !.is_safe = final_check.is_safe,
                !.safety_checks = Append(@, final_check),
                !.current_step = IF final_check.is_safe THEN "completed"
                                                         ELSE "safety_failed",
                !.warnings = IF final_check.is_safe THEN @
                             ELSE @ \o final_check.flagged_content])

\* "; ".join(state['errors'][-3:])
ErrorContext(state) ==
    Join(<<";", " ">>, SubSeq(state.errors, Max({1, Len(state.errors) - 2}), Len(state.errors)))

\* reflexion_node that retries without counting the retry
reflexion_node_keeps_count(state, call) ==
    IF call.raised
    THEN NodeReturn(Failed(state, (* "Reflexion failed: " *) <<"R", "e", "f", "l", "e", "x", "i", "o", "n", " ", "f", "a", "i", "l", "e", "d", ":", " ">>, call.error, "reflexion_failed"))
    ELSE LET out == call.value
             retry == out.should_retry /\ state.retry_count < state.max_retries
         IN NodeReturn([state EXCEPT
                !.critique = out.critique,
                !.improvements = out.improvement_suggestions,
                !.plan = IF out.revised_plan # <<>> THEN out.revised_plan ELSE @,
                !.current_step = IF retry THEN "retry_planning"
                                          ELSE "max_retries_reached"])

\* reflexion_node that counts a retry twice
reflexion_node_counts_twice(state, call) ==
    IF call.raised
    THEN NodeReturn(Failed(state, (* "Reflexion failed: " *) <<"R", "e", "f", "l", "e", "x", "i", "o", "n", " ", "f", "a", "i", "l", "e", "d", ":", " ">>, call.error, "reflexion_failed"))
    ELSE LET out == call.value
             retry == out.should_retry /\ state.retry_count < state.max_retries
         IN NodeReturn([state EXCEPT
                !.critique = out.critique,
                !.improvements = out.improvement_suggestions,
                !.plan = IF out.revised_plan # <<>> THEN out.revised_plan ELSE @,
                !.retry_count = IF retry THEN @ + 2 ELSE @,
                !.current_step = IF retry THEN "retry_planning"
                                          ELSE "max_retries_reached"])

\* reflexion_node that retries while retries are left, whatever the model
\* advises
reflexion_node_retries_unasked(state, call) ==
    IF call.raised
    THEN NodeReturn(Failed(state, (* "Reflexion failed: " *) <<"R", "e", "f", "l", "e", "x", "i", "o", "n", " ", "f", "a", "i", "l", "e", "d", ":", " ">>, call.error, "reflexion_failed"))
    ELSE LET out == call.value
             retry == state.retry_count < state.max_retries
         IN NodeReturn([state EXCEPT
                !.critique = out.critique,
                !.improvements = out.improvement_suggestions,
                !.plan = IF out.revised_plan # <<>> THEN out.revised_plan ELSE @,
                !.retry_count = IF retry THEN @ + 1 ELSE @,
                !.current_step = IF retry THEN "retry_planning"
                                          ELSE "max_retries_reached"])

reflexion_node(state, call) ==
    IF call.raised
    THEN NodeReturn(Failed(state, (* "Reflexion failed: " *) <<"R", "e", "f", "l", "e", "x", "i", "o", "n", " ", "f", "a", "i", "l", "e", "d", ":", " ">>, call.error, "reflexion_failed"))
    ELSE LET out == call.value
             retry == out.should_retry /\ state.retry_count < state.max_retries
         IN NodeReturn([state EXCEPT
                !.critique = out.critique,
                !.improvements = out.improvement_suggestions,
                !.plan = IF out.revised_plan # <<>> THEN out.revised_plan ELSE @,
                !.retry_count = IF retry THEN @ + 1 ELSE @,
                !.current_step = IF retry THEN "retry_planning"
                                          ELSE "max_retries_reached"])

\* ------------------------------------------------------------------------
\* graph.py: the routers of the conditional edges
\* ------------------------------------------------------------------------
\* The test of the retries left that sends every failure to reflexion
RetryAlways(state) == "reflexion"

\* The test of the retries left that still retries when none is left
RetryOrEndInclusive(state) ==
    IF state.retry_count <= state.max_retries THEN "reflexion" ELSE "end"

RetryOrEnd(state) ==
    IF state.retry_count < state.max_retries THEN "reflexion" ELSE "end"

route_after_planning(state) ==
    IF state.current_step = "planning_complete" THEN "search"
    ELSE IF state.current_step = "planning_failed" THEN RetryOrEnd(state)
    ELSE "end"

\* route_after_search that gives up on a failed search without looking at
\* the retries left
route_after_search_no_retry(state) ==
    IF state.current_step = "search_complete"
    THEN IF state.sources # <<>> THEN "validate" ELSE RetryOrEnd(state)
    ELSE "end"

route_after_search(state) ==
    IF state.current_step = "search_complete"
    THEN IF state.sources # <<>> THEN "validate" ELSE RetryOrEnd(state)
    ELSE IF state.current_step = "search_failed" THEN RetryOrEnd(state)
    ELSE "end"

route_after_validation(state) ==
    IF state.current_step = "validation_complete"
    THEN IF state.sources # <<>> THEN "synthesize" ELSE RetryOrEnd(state)
    ELSE IF state.current_step = "validation_failed" THEN RetryOrEnd(state)
    ELSE "end"

route_after_synthesis(state) ==
    IF state.current_step = "synthesis_complete" THEN "safety"
    ELSE IF state.current_step = "synthesis_failed" THEN RetryOrEnd(state)
    ELSE "end"

route_after_safety(state) ==
    IF state.current_step = "completed" /\ state.is_safe THEN "end"
    ELSE IF state.current_step \in {"safety_failed", "safety_validation_failed"}
            \/ ~state.is_safe
    THEN RetryOrEnd(state)
    ELSE "end"

\* route_after_reflexion that goes back to plan whatever the outcome
route_after_reflexion_always_plan(state) == "plan"

route_after_reflexion(state) ==
    IF state.current_step = "retry_planning" THEN "plan" ELSE "end"

\* workflow.add_conditional_edges(node, router, ...)
Route(node, state) ==
    CASE node = "plan" -> route_after_planning(state)
      [] node = "search" -> route_after_search(state)
      [] node = "validate" -> route_after_validation(state)
      [] node = "synthesize" -> route_after_synthesis(state)
      [] node = "safety" -> route_after_safety(state)
      [] node = "reflexion" -> route_after_reflexion(state)

\* run_research whose except branch raises again
run_research_reraises(initial_state, e) == NodeRaise(initial_state, e)

\* The except branch of run_research: the state it hands back
run_research_except(initial_state, e) ==
    NodeReturn([initial_state EXCEPT
        !.errors = Append(@, (* "Workflow execution failed: " *) <<"W", "o", "r", "k", "f", "l", "o", "w", " ", "e", "x", "e", "c", "u", "t", "i", "o", "n", " ", "f", "a", "i", "l", "e", "d", ":", " ">> \o e),
        !.current_step = "workflow_failed"])


\* ------------------------------------------------------------------------
\* graph.py: run_research's config and resume_from_checkpoint, given the
\* StateSnapshot current_state that graph.aget_state(config) returned
\* ------------------------------------------------------------------------
\* thread_id or "default"; "None" stands for no thread id passed
ConfigThread(thread_id) == IF thread_id = "None" THEN "default" ELSE thread_id

\* resume_from_checkpoint without the test of current_state.values
resume_from_checkpoint_unchecked(checkpointer_, thread_id, current_state) ==
    IF ~checkpointer_
    THEN Raised((* "Checkpointing not enabled" *) <<"C", "h", "e", "c", "k", "p", "o", "i", "n", "t", "i", "n", "g", " ", "n", "o", "t", " ", "e", "n", "a", "b", "l", "e", "d">>)
    ELSE Returned(current_state)

\* Raised: the ValueError that leaves the call; Returned: the checkpoint
\* graph.ainvoke(None, config) goes on from
resume_from_checkpoint(checkpointer_, thread_id, current_state) ==
    IF ~checkpointer_
    THEN Raised((* "Checkpointing not enabled" *) <<"C", "h", "e", "c", "k", "p", "o", "i", "n", "t", "i", "n", "g", " ", "n", "o", "t", " ", "e", "n", "a", "b", "l", "e", "d">>)
    ELSE IF current_state.values = <<>>
    THEN Raised((* "No checkpoint found for thread " *) <<"N", "o", " ", "c", "h", "e", "c", "k", "p", "o", "i", "n", "t", " ", "f", "o", "u", "n", "d", " ", "f", "o", "r", " ", "t", "h", "r", "e", "a", "d", " ">> \o <<thread_id>>)
    ELSE Returned(current_state)
\* ------------------------------------------------------------------------
\* A run of ResearchWorkflow.run_research
\* ------------------------------------------------------------------------
\* Largest Config.MAX_RETRIES (environment variable MAX_RETRIES) of a run
MaxRetries == 2

Nodes == {"plan", "search", "validate", "synthesize", "safety", "reflexion"}

VARIABLES
    MAX_RETRIES,        \* Config.MAX_RETRIES
    state,              \* the ResearchState the graph threads through the nodes
    pc,                 \* "idle", the node the graph runs next, "end" or "done"
    steps,              \* the nodes executed so far, in order
    ret,                \* what run_research handed to its caller
    report,             \* the text _save_report_to_file wrote, <<>> if none
    provider_answered,  \* some search call of the run got a non-empty result list
    graph_error,        \* str(e) of the exception graph.ainvoke raised, <<>> if none
    unit_in,            \* node called on its own: the state passed in
    unit_call,          \* node called on its own: the outcome of its awaited call
    bucket,             \* the TokenBucket of SafetyValidator.rate_limiter
    now,                \* what time.time() returns
    callers,            \* the calls in progress on the bucket, one per thread
    granted,            \* tokens handed out by the consume calls that returned True
    refilled,           \* tokens the refills of consume added to the bucket
    provider_calls,     \* calls of self.client.search made by TavilySearchTool.search
    checkpointer,       \* ResearchWorkflow.checkpointer is a MemorySaver (Config.CHECKPOINT_ENABLED)
    checkpoints,        \* what the MemorySaver holds for each thread id
    tasks,              \* the run_research / resume_from_checkpoint calls on one workflow
    users_file,         \* data/users.json: username -> stored user
    request_files,      \* data/research/<request_id>.json: request_id -> request data
    workers,            \* each server process: its active_requests and the handler it is in
    response,           \* the response the API sent last
    accepted,           \* the usernames whose registration was answered with 200
    created,            \* request_id -> username of the create_request calls made
    audit_log,          \* ResearchManager on its own: the research_* entries of data/audit/audit_*.log, oldest first
    background          \* ResearchManager on its own: the tasks asyncio.create_task made for _execute_research

\* The state of one run, and the state that outlives a run
run_vars == <<MAX_RETRIES, state, pc, steps, ret, report, provider_answered,
              graph_error, unit_in, unit_call>>
limiter_vars == <<bucket, now, callers, granted, refilled, provider_calls>>

store_vars == <<checkpointer, checkpoints, tasks>>

api_vars == <<users_file, request_files, workers, response, accepted, created,
              audit_log, background>>

vars == <<run_vars, limiter_vars, store_vars, api_vars>>

NoReturn == [kind |-> "none", state |-> <<>>, error |-> <<>>]
NoUnit == [node |-> "none"]

\* return final_state / an exception leaving run_research
Outcome(r) ==
    IF r.raised THEN [kind |-> "raised", state |-> <<>>, error |-> r.error]
    ELSE [kind |-> "returned", state |-> r.state, error |-> <<>>]

\* The coroutines that call one ResearchWorkflow, and the thread ids the
\* MemorySaver files checkpoints under
Tasks == {"r1", "r2"}
ThreadIds == {"default", "a"}

NoTask ==
    [kind |-> "none", thread |-> "none", state |-> <<>>, pc |-> "idle", steps |-> <<>>,
     ret |-> [kind |-> "none", state |-> <<>>, error |-> <<>>],
     stored |-> FALSE, loaded |-> {}]

\* A thread the MemorySaver holds nothing for: the StateSnapshot aget_state
\* returns has no values and no next node, and no call has written to it
NoCheckpoint == [values |-> <<>>, next |-> "end", by |-> {}]

\* ResearchWorkflow.__init__: an empty MemorySaver, no call in progress
NoTasks ==
    /\ checkpointer = TRUE
    /\ checkpoints = [thread \in ThreadIds |-> NoCheckpoint]
    /\ tasks = [t \in Tasks |-> NoTask]

\* The server processes uvicorn starts (--workers)
Workers == {"w1", "w2"}

NoResponse == [endpoint |-> "none"]
NoWorker ==
    [active_requests |-> <<>>, handler |-> "idle", users |-> <<>>,
     user_create |-> [username |-> "", email |-> "", password |-> ""]]

\* AuthManager.__init__ and ResearchManager.__init__ on empty data
\* directories: no user, no request, nothing in memory
NoApi ==
    /\ users_file = <<>>
    /\ request_files = <<>>
    /\ workers = [w \in Workers |-> NoWorker]
    /\ response = NoResponse
    /\ accepted = {}
    /\ created = <<>>
    /\ audit_log = <<>>
    /\ background = <<>>

\* SafetyValidator.__init__: a full bucket nobody has called yet
LimiterInit ==
    /\ bucket = TokenBucket(RATE_LIMIT_REQUESTS_PER_MINUTE * Whole, 1, 0)
    /\ now = 0
    /\ callers = <<>>
    /\ granted = 0
    /\ provider_calls = 0
    /\ refilled = 0

Init ==
    /\ LimiterInit
    /\ NoTasks
    /\ NoApi
    /\ MAX_RETRIES \in 0..MaxRetries
    /\ state = create_initial_state(<<>>, MAX_RETRIES)
    /\ pc = "idle"
    /\ steps = <<>>
    /\ ret = NoReturn
    /\ report = <<>>
    /\ provider_answered = FALSE
    /\ graph_error = <<>>
    /\ unit_in = NoUnit
    /\ unit_call = NoUnit

\* run_research up to graph.ainvoke: the initial state enters the graph at "plan"
RunResearch ==
    /\ pc = "idle"
    /\ \E query \in Queries : state' = create_initial_state(query, MAX_RETRIES)
    /\ pc' = "plan"
    /\ UNCHANGED <<limiter_vars, store_vars, api_vars, MAX_RETRIES, steps, ret, report, provider_answered, graph_error,
                   unit_in, unit_call>>

\* initial_state as the except branch of run_research finds it: the graph
\* may have handed the nodes the very list objects of initial_state, so the
\* errors and warnings appended in place may or may not show in it
InitialStateSeen(shared) ==
    LET initial_state == create_initial_state(state.research_query, state.max_retries)
    IN IF shared
       THEN [initial_state EXCEPT !.errors = state.errors, !.warnings = state.warnings]
       ELSE initial_state

\* graph.ainvoke raises e: run_research's except branch; of the run only
\* initial_state is left
Caught(e) ==
    /\ \E shared \in BOOLEAN :
           LET r == run_research_except(InitialStateSeen(shared), e)
           IN /\ ret' = Outcome(r)
              /\ state' = r.state
    /\ pc' = "done"
    /\ graph_error' = e
    /\ UNCHANGED <<limiter_vars, store_vars, api_vars, MAX_RETRIES, report, unit_in, unit_call>>

\* One super-step of the graph: the node ran with result r, its router picks
\* the next node; an exception a node lets out leaves graph.ainvoke
Exec(node, r) ==
    IF r.raised
    THEN Caught(r.error) /\ steps' = Append(steps, node)
    ELSE /\ state' = r.state
         /\ pc' = Route(node, r.state)
         /\ steps' = Append(steps, node)
         /\ UNCHANGED <<limiter_vars, store_vars, api_vars, MAX_RETRIES, ret, report, graph_error, unit_in, unit_call>>

Plan ==
    /\ pc = "plan"
    /\ \E reply \in PlanReplies :
           Exec("plan", plan_node(state, generate_plan(state.research_query, reply)))
    /\ UNCHANGED provider_answered

\* The provider's answers to the queries of one search step: one per query
\* searched, none longer than the max_results asked for
ProviderAnswers(s) ==
    {answers \in [1..Len(SearchedQueries(s)) -> ProviderResponses] :
        \A k \in DOMAIN answers :
            ~answers[k].raised => Len(answers[k].value) <= MaxResultsPerQuery(s)}

Search ==
    /\ pc = "search"
    /\ \E answers \in ProviderAnswers(state) :
           /\ Exec("search", search_node(state, [k \in DOMAIN answers |-> search(answers[k])]))
           /\ provider_answered' =
                  (provider_answered
                      \/ \E k \in DOMAIN answers :
                             ~answers[k].raised /\ answers[k].value # <<>>)

Validate ==
    /\ pc = "validate"
    /\ Exec("validate",
            validate_node(state, Returned(validate_search_results(state.sources))))
    /\ UNCHANGED provider_answered

Synthesize ==
    /\ pc = "synthesize"
    /\ \E reply \in SynthesisReplies :
           Exec("synthesize",
                synthesize_node(state,
                    synthesize_research(state.research_query, state.sources, reply)))
    /\ UNCHANGED provider_answered

Safety ==
    /\ pc = "safety"
    /\ Exec("safety", safety_node(state, Returned(validate_final_output(state.draft))))
    /\ UNCHANGED provider_answered

Reflexion ==
    /\ pc = "reflexion"
    /\ \E reply \in ReflexionReplies :
           Exec("reflexion",
                reflexion_node(state,
                    perform_reflexion(state.research_query, state.draft,
                                      ErrorContext(state), reply)))
    /\ UNCHANGED provider_answered

\* The graph runtime itself fails between two nodes
GraphRaises ==
    /\ pc \in Nodes
    /\ Caught(ApiError)
    /\ UNCHANGED <<steps, provider_answered>>

\* graph.ainvoke returned: the report is saved when the run completed with
\* a draft (a failed write is only logged), and final_state is returned
Return ==
    /\ pc = "end"
    /\ ret' = Outcome(NodeReturn(state))
    /\ \E written \in BOOLEAN :
           report' = IF written /\ state.current_step = "completed" /\ state.draft # <<>>
                     THEN state.draft ELSE report
    /\ pc' = "done"
    /\ UNCHANGED <<limiter_vars, store_vars, api_vars, MAX_RETRIES, state, steps, provider_answered, graph_error,
                   unit_in, unit_call>>

Next ==
    \/ RunResearch
    \/ Plan
    \/ Search
    \/ Validate
    \/ Synthesize
    \/ Safety
    \/ Reflexion
    \/ GraphRaises
    \/ Return

Spec == Init /\ [][Next]_vars

\* asyncio runs an awaited step to its end and the graph runtime schedules
\* the next node, so control does not stay at one place of an unfinished
\* run forever.  Every step of Next changes pc and a step is possible
\* exactly while pc # "done": this is weak fairness of Next, stated on pc.
ControlMoves == pc # "done" /\ pc' \in Nodes \cup {"end", "done"} /\ pc' # pc

FairSpec == Spec /\ WF_pc(ControlMoves)

\* ------------------------------------------------------------------------
\* A step function called on its own, as the graph calls it: on a state,
\* with an awaited call that returns or raises, followed by its router
\* ------------------------------------------------------------------------
\* Largest max_retries of the states a node is called on
UnitMaxRetries == 3

UnitError == (* "Planning failed: x" *) <<"P", "l", "a", "n", "n", "i", "n", "g", " ", "f", "a", "i", "l", "e", "d", ":", " ", "x">>
UnitCheck == SafetyCheck(TRUE, "Trusted domain", 90, <<>>)

UnitStates ==
    {[create_initial_state((* "ai agents" *) <<"a", "i", " ", "a", "g", "e", "n", "t", "s">>, m) EXCEPT
         !.retry_count = rc, !.sources = src, !.draft = d, !.errors = errs,
         !.search_queries = sq, !.safety_checks = sc] :
        m \in 0..UnitMaxRetries, rc \in 0..UnitMaxRetries,
        src \in {<<>>, <<ItemClean>>, <<ItemFlagged, ItemClean>>},
        d \in {<<>>, (* "how to hack" *) <<"h", "o", "w", " ", "t", "o", " ", "h", "a", "c", "k">>},
        errs \in {<<>>, <<UnitError>>},
        sq \in {<<>>, << (* "agents" *) <<"a", "g", "e", "n", "t", "s">> >>},
        sc \in {<<>>, <<UnitCheck>>}}

UnitInit ==
    /\ LimiterInit
    /\ NoTasks
    /\ NoApi
    /\ MAX_RETRIES = UnitMaxRetries
    /\ state \in {s \in UnitStates : s.retry_count <= s.max_retries}
    /\ pc = "unit"
    /\ steps = <<>>
    /\ ret = NoReturn
    /\ report = <<>>
    /\ provider_answered = FALSE
    /\ graph_error = <<>>
    /\ unit_in = NoUnit
    /\ unit_call = NoUnit

\* node ran on state with result r; failed: an exception (error) occurred in it
UnitCall(node, r, failed, error) ==
    /\ unit_in' = [node |-> node, state |-> state]
    /\ unit_call' = [node |-> node, raised |-> failed, error |-> error]
    /\ state' = r.state
    /\ ret' = Outcome(r)
    /\ steps' = <<node>>
    /\ pc' = IF r.raised THEN "done" ELSE Route(node, r.state)
    /\ UNCHANGED <<limiter_vars, store_vars, api_vars, MAX_RETRIES, report, provider_answered, graph_error>>

UnitPlan ==
    /\ pc = "unit"
    /\ \E call \in {Raised(ApiError), Returned(PlanningOutput((* "a plan" *) <<"a", " ", "p", "l", "a", "n">>, << (* "agents" *) <<"a", "g", "e", "n", "t", "s">> >>))} :
           UnitCall("plan", plan_node(state, call), call.raised, call.error)

UnitSearch ==
    /\ pc = "unit"
    /\ \E calls \in [1..Len(SearchedQueries(state)) ->
                        {Raised(ApiError), Returned(<<>>), Returned(<<ItemClean>>)}] :
           LET failing == {k \in DOMAIN calls : calls[k].raised}
           IN UnitCall("search", search_node(state, calls), failing # {},
                       IF failing = {} THEN <<>> ELSE calls[Min(failing)].error)

UnitValidate ==
    /\ pc = "unit"
    /\ \E call \in {Raised(ApiError), Returned(validate_search_results(state.sources))} :
           UnitCall("validate", validate_node(state, call), call.raised, call.error)

UnitSynthesize ==
    /\ pc = "unit"
    /\ \E call \in {Raised(ApiError),
                    Returned(SynthesisOutput((* "Agents plan." *) <<"A", "g", "e", "n", "t", "s", " ", "p", "l", "a", "n", ".">>, <<>>, <<>>, 85, <<>>))} :
           UnitCall("synthesize", synthesize_node(state, call),
                    state.sources = <<>> \/ call.raised,
                    IF state.sources = <<>> THEN (* "No sources available for synthesis" *) <<"N", "o", " ", "s", "o", "u", "r", "c", "e", "s", " ", "a", "v", "a", "i", "l", "a", "b", "l", "e", " ", "f", "o", "r", " ", "s", "y", "n", "t", "h", "e", "s", "i", "s">>
                    ELSE call.error)

UnitSafety ==
    /\ pc = "unit"
    /\ \E call \in {Raised(ApiError), Returned(validate_final_output(state.draft))} :
           UnitCall("safety", safety_node(state, call), call.raised, call.error)

UnitReflexion ==
    /\ pc = "unit"
    /\ \E call \in {Raised(ApiError),
                    Returned(ReflexionOutput((* "narrow" *) <<"n", "a", "r", "r", "o", "w">>, <<>>, <<"w", "i", "d", "e", "r">>, TRUE)),
                    Returned(ReflexionOutput((* "narrow" *) <<"n", "a", "r", "r", "o", "w">>, <<>>, <<>>, FALSE))} :
           UnitCall("reflexion", reflexion_node(state, call), call.raised, call.error)

UnitNext ==
    \/ UnitPlan
    \/ UnitSearch
    \/ UnitValidate
    \/ UnitSynthesize
    \/ UnitSafety
    \/ UnitReflexion

SpecNodes == UnitInit /\ [][UnitNext]_vars

\* ------------------------------------------------------------------------
\* search_node called on its own with provider answers that repeat urls,
\* come unsorted and exceed MAX_SEARCH_RESULTS
\* ------------------------------------------------------------------------
\* Largest number of search queries in the state search_node is called on
MaxQueries == 4

Hit(i, score) == SearchResult(<<"/", LowerAlpha[i]>>, <<>>, <<>>, score)

\* One more distinct url than search_node keeps, scores ascending
LongResponse == [i \in 1..(MAX_SEARCH_RESULTS + 1) |-> Hit(i, 5 * i)]

SearchResponses ==
    { Raised(ApiError),
      Returned(<<>>),
      Returned(<<Hit(1, 50), Hit(2, 90)>>),
      Returned(<<Hit(2, 70), Hit(1, 50), Hit(12, 50)>>),
      Returned(<<Hit(3, 90), Hit(3, 10)>>),
      Returned(LongResponse) }

SearchInit ==
    /\ LimiterInit
    /\ NoTasks
    /\ NoApi
    /\ MAX_RETRIES = 0
    /\ state \in {[create_initial_state((* "ai agents" *) <<"a", "i", " ", "a", "g", "e", "n", "t", "s">>, 0) EXCEPT
                      !.current_step = "planning_complete",
                      !.search_queries = [k \in 1..n |-> <<"q", LowerAlpha[k]>>]] :
                  n \in 0..MaxQueries}
    /\ pc = "unit"
    /\ steps = <<>>
    /\ ret = NoReturn
    /\ report = <<>>
    /\ provider_answered = FALSE
    /\ graph_error = <<>>
    /\ unit_in = NoUnit
    /\ unit_call = NoUnit

\* search_node runs once; all_results is what the provider returned, in the
\* order of the calls
SearchOnce ==
    /\ pc = "unit"
    /\ \E calls \in [1..Len(SearchedQueries(state)) -> SearchResponses] :
           LET r == search_node(state, calls)
               failing == {k \in DOMAIN calls : calls[k].raised}
           IN /\ unit_in' = [node |-> "search", state |-> state]
              /\ unit_call' = [node |-> "search",
                               raised |-> failing # {},
                               error |-> IF failing = {} THEN <<>>
                                         ELSE calls[Min(failing)].error,
                               all_results |-> IF failing # {} THEN <<>>
                                               ELSE Flatten([k \in DOMAIN calls |-> calls[k].value])]
              /\ state' = r.state
              /\ ret' = Outcome(r)
              /\ steps' = <<"search">>
              /\ pc' = IF r.raised THEN "done" ELSE Route("search", r.state)
    /\ UNCHANGED <<limiter_vars, store_vars, api_vars, MAX_RETRIES, report, provider_answered, graph_error>>

SearchNext == SearchOnce

SpecSearch == SearchInit /\ [][SearchNext]_vars

\* ------------------------------------------------------------------------
\* The token bucket on its own: no run in progress
\* ------------------------------------------------------------------------
\* Largest capacity (in tokens), refill rate (parts per tick), number of
\* tokens asked for and clock reading
MaxCapacity == 2
MaxRate == 2
MaxTokens == 2
MaxTime == 3

NoRun ==
    /\ MAX_RETRIES = 0
    /\ state = create_initial_state(<<>>, 0)
    /\ pc = "idle"
    /\ steps = <<>>
    /\ ret = NoReturn
    /\ report = <<>>
    /\ provider_answered = FALSE
    /\ graph_error = <<>>
    /\ unit_in = NoUnit
    /\ unit_call = NoUnit

Buckets ==
    {TokenBucket(c * Whole, r, 0) : c \in 1..MaxCapacity, r \in 1..MaxRate}

\* time.time() moves on
Tick ==
    /\ now < MaxTime
    /\ now' = now + 1
    /\ UNCHANGED <<run_vars, store_vars, api_vars, bucket, callers, granted, refilled, provider_calls>>

\* ---- one caller: each call runs to its end before the next starts ----
NoCall == [op |-> "none"]

BucketInit ==
    /\ NoRun
    /\ NoTasks
    /\ NoApi
    /\ bucket \in Buckets
    /\ now = 0
    /\ callers = NoCall
    /\ granted = 0
    /\ provider_calls = 0
    /\ refilled = 0

Consume ==
    \E n \in 0..MaxTokens :
        LET r == consume(bucket, n * Whole, now)
            taken == IF r.result THEN n * Whole ELSE 0
        IN /\ bucket' = r.self
           /\ callers' = [op |-> "consume", tokens |-> n * Whole, before |-> bucket,
                          at |-> now, result |-> r.result]
           /\ granted' = granted + taken
           /\ refilled' = refilled + (r.self.tokens + taken - bucket.tokens)
           /\ UNCHANGED <<run_vars, store_vars, api_vars, now, provider_calls>>

WaitTime ==
    \E n \in 1..MaxTokens :
        /\ callers' = [op |-> "wait_time", tokens |-> n * Whole, before |-> bucket,
                       at |-> now, result |-> wait_time(bucket, n * Whole)]
        /\ UNCHANGED <<run_vars, store_vars, api_vars, bucket, now, granted, refilled, provider_calls>>

BucketNext ==
    \/ Tick
    \/ Consume
    \/ WaitTime

SpecBucket == BucketInit /\ [][BucketNext]_vars

\* ---- several threads: a call is a sequence of reads and writes of the
\* bucket's fields, and a thread can be switched out between any two ----
Threads == {"t1", "t2"}

\* A lock that does not exclude anybody
AlwaysFree(lock) == TRUE

\* with self.lock: the lock can be taken when no thread holds it
LockFree(lock) == lock = "free"

Idle == [at |-> "idle"]

ThreadsInit ==
    /\ NoRun
    /\ NoTasks
    /\ NoApi
    /\ bucket \in Buckets
    /\ now = 0
    /\ callers = [t \in Threads |-> Idle]
    /\ granted = 0
    /\ provider_calls = 0
    /\ refilled = 0

Goto(t, c) == callers' = [callers EXCEPT ![t] = c]

\* consume(n) or wait_time(n) is called and waits for the lock
Call(t) ==
    /\ callers[t].at = "idle"
    /\ \E op \in {"consume", "wait_time"}, n \in 1..MaxTokens :
           Goto(t, [at |-> "lock", op |-> op, tokens |-> n * Whole])
    /\ UNCHANGED <<run_vars, store_vars, api_vars, bucket, now, granted, refilled, provider_calls>>

\* with self.lock:
Acquire(t) ==
    /\ callers[t].at = "lock"
    /\ LockFree(bucket.lock)
    /\ bucket' = [bucket EXCEPT !.lock = t]
    /\ Goto(t, [callers[t] EXCEPT !.at = IF callers[t].op = "consume"
                                          THEN "time" ELSE "compare"]
                   @@ [before |-> bucket, now_ |-> now])
    /\ UNCHANGED <<run_vars, store_vars, api_vars, now, granted, refilled, provider_calls>>

\* now = time.time()
ReadClock(t) ==
    /\ callers[t].at = "time"
    /\ Goto(t, [callers[t] EXCEPT !.at = "add", !.now_ = now])
    /\ UNCHANGED <<run_vars, store_vars, api_vars, bucket, now, granted, refilled, provider_calls>>

\* tokens_to_add = (now - self.last_refill) * self.refill_rate
Add(t) ==
    /\ callers[t].at = "add"
    /\ Goto(t, [callers[t] EXCEPT !.at = "refill"]
                   @@ [tokens_to_add |-> tokens_to_add(bucket, callers[t].now_)])
    /\ UNCHANGED <<run_vars, store_vars, api_vars, bucket, now, granted, refilled, provider_calls>>

\* self.tokens = min(self.capacity, self.tokens + tokens_to_add)
Refill(t) ==
    /\ callers[t].at = "refill"
    /\ bucket' = [bucket EXCEPT
                     !.tokens = Min({bucket.capacity, bucket.tokens + callers[t].tokens_to_add})]
    /\ refilled' = refilled + (bucket'.tokens - bucket.tokens)
    /\ Goto(t, [callers[t] EXCEPT !.at = "stamp"])
    /\ UNCHANGED <<run_vars, store_vars, api_vars, now, granted, provider_calls>>

\* self.last_refill = now
Stamp(t) ==
    /\ callers[t].at = "stamp"
    /\ bucket' = [bucket EXCEPT !.last_refill = callers[t].now_]
    /\ Goto(t, [callers[t] EXCEPT !.at = "compare"])
    /\ UNCHANGED <<run_vars, store_vars, api_vars, now, granted, refilled, provider_calls>>

\* if self.tokens >= tokens: ... (consume reads self.tokens for the
\* subtraction, wait_time for needed_tokens); else return False / 0.0
Compare(t) ==
    /\ callers[t].at = "compare"
    /\ LET c == callers[t]
           enough == bucket.tokens >= c.tokens
       IN Goto(t, CASE c.op = "consume" /\ enough ->
                         [c EXCEPT !.at = "store"] @@ [tokens_read |-> bucket.tokens]
                    [] c.op = "consume" /\ ~enough ->
                         [c EXCEPT !.at = "return"] @@ [result |-> FALSE]
                    [] c.op = "wait_time" /\ enough ->
                         [c EXCEPT !.at = "return"] @@ [result |-> Quotient(0, 1)]
                    [] c.op = "wait_time" /\ ~enough ->
                         [c EXCEPT !.at = "return"]
                             @@ [result |-> Quotient(c.tokens - bucket.tokens,
                                                     bucket.refill_rate)])
    /\ UNCHANGED <<run_vars, store_vars, api_vars, bucket, now, granted, refilled, provider_calls>>

\* self.tokens -= tokens: the value read is written back lowered
Store(t) ==
    /\ callers[t].at = "store"
    /\ bucket' = [bucket EXCEPT !.tokens = callers[t].tokens_read - callers[t].tokens]
    /\ Goto(t, [callers[t] EXCEPT !.at = "return"] @@ [result |-> TRUE])
    /\ UNCHANGED <<run_vars, store_vars, api_vars, now, granted, refilled, provider_calls>>

\* return: the with block is left and the lock released
Release(t) ==
    /\ callers[t].at = "return"
    /\ bucket' = [bucket EXCEPT !.lock = "free"]
    /\ granted' = granted + IF callers[t].op = "consume" /\ callers[t].result
                            THEN callers[t].tokens ELSE 0
    /\ Goto(t, Idle)
    /\ UNCHANGED <<run_vars, store_vars, api_vars, now, refilled, provider_calls>>

ThreadsNext ==
    \/ Tick
    \/ \E t \in Threads :
           \/ Call(t)
           \/ Acquire(t)
           \/ ReadClock(t)
           \/ Add(t)
           \/ Refill(t)
           \/ Stamp(t)
           \/ Compare(t)
           \/ Store(t)
           \/ Release(t)

SpecThreads == ThreadsInit /\ [][ThreadsNext]_vars


\* ------------------------------------------------------------------------
\* tools.py: the rate limiting of TavilySearchTool.search
\* ------------------------------------------------------------------------
\* Most calls of search
MaxCalls == 3

\* SafetyValidator.__init__ under a configured rate limit (the length of a
\* clock tick decides the parts refilled per tick)
ToolInit ==
    /\ NoRun
    /\ NoTasks
    /\ NoApi
    /\ bucket \in Buckets
    /\ now = 0
    /\ callers = NoCall
    /\ granted = 0
    /\ refilled = 0
    /\ provider_calls = 0

\* search(query): check_rate_limit(); when it returns False the call sleeps
\* get_rate_limit_wait_time() seconds (asyncio.sleep returns no earlier);
\* then self.client.search is called, whatever it answers
LimitedSearch ==
    /\ provider_calls < MaxCalls
    /\ LET r == consume(bucket, Whole, now)
           taken == IF r.result THEN Whole ELSE 0
           wait == wait_time(r.self, Whole)
       IN /\ bucket' = r.self
          /\ granted' = granted + taken
          /\ refilled' = refilled + (r.self.tokens + taken - bucket.tokens)
          /\ IF r.result
             THEN now' = now
             ELSE \E t \in now..MaxTime :
                      /\ t * wait.den >= now * wait.den + wait.num
                      /\ now' = t
          /\ callers' = [op |-> "search", at |-> now, consumed |-> r.result]
    /\ provider_calls' = provider_calls + 1
    /\ UNCHANGED <<run_vars, store_vars, api_vars>>

ToolNext ==
    \/ Tick
    \/ LimitedSearch

SpecTool == ToolInit /\ [][ToolNext]_vars
\* ------------------------------------------------------------------------
\* The functions of SafetyValidator called on their own
\* ------------------------------------------------------------------------
\* Longest list of checks aggregate_safety_checks is called on
MaxChecks == 3

\* Checks as validate_url and moderate_content build them, and a safe check
\* that carries flagged content
SomeChecks ==
    { SafetyCheck(TRUE, "Trusted domain", 90, <<>>),
      SafetyCheck(TRUE, "Content passed moderation", 80, << <<"m", "i", "l", "d">> >>),
      SafetyCheck(FALSE, "Untrusted domain", 30, << <<"b", "a", "d">> >>),
      SafetyCheck(FALSE, "Content flagged for review", 95, << <<"b", "a", "d">>, <<"w", "o", "r", "s", "e">> >>),
      SafetyCheck(FALSE, "Unsupported protocol", 100, <<>>) }

CheckLists == UNION {[1..n -> SomeChecks] : n \in 0..MaxChecks}

\* Urls: scheme, "//", netloc, path, each present or not.  The netlocs are
\* trusted domains of Config bare, under www., as a subdomain, as the tail of
\* another name, in capitals, with a port and with userinfo; domains not in
\* Config; a netloc without a host; a netloc with an unclosed bracket
UrlSchemes == { <<>>, (* "https:" *) <<"h", "t", "t", "p", "s", ":">>, <<"H", "T", "T", "P", ":">>, <<"f", "t", "p", ":">> }

UrlNetlocs ==
    { (* "arxiv.org" *) <<"a", "r", "x", "i", "v", ".", "o", "r", "g">>, (* "www.arxiv.org" *) <<"w", "w", "w", ".", "a", "r", "x", "i", "v", ".", "o", "r", "g">>, (* "sub.arxiv.org" *) <<"s", "u", "b", ".", "a", "r", "x", "i", "v", ".", "o", "r", "g">>, (* "xarxiv.org" *) <<"x", "a", "r", "x", "i", "v", ".", "o", "r", "g">>,
      (* "arxiv.net" *) <<"a", "r", "x", "i", "v", ".", "n", "e", "t">>, (* "ARXIV.org" *) <<"A", "R", "X", "I", "V", ".", "o", "r", "g">>, (* "arxiv.org:443" *) <<"a", "r", "x", "i", "v", ".", "o", "r", "g", ":", "4", "4", "3">>, (* "user@arxiv.org" *) <<"u", "s", "e", "r", "@", "a", "r", "x", "i", "v", ".", "o", "r", "g">>,
      (* "www.www.mit.edu" *) <<"w", "w", "w", ".", "w", "w", "w", ".", "m", "i", "t", ".", "e", "d", "u">>, (* "wwwmit.edu" *) <<"w", "w", "w", "m", "i", "t", ".", "e", "d", "u">>, (* "www.example.net" *) <<"w", "w", "w", ".", "e", "x", "a", "m", "p", "l", "e", ".", "n", "e", "t">>, (* "example.com" *) <<"e", "x", "a", "m", "p", "l", "e", ".", "c", "o", "m">>,
      <<":", "8", "0">>, <<"[", "x">> }

Urls ==
    { (* "not-a-url" *) <<"n", "o", "t", "-", "a", "-", "u", "r", "l">> } \cup
    {scheme \o slashes \o netloc \o path :
        scheme \in UrlSchemes, slashes \in { <<>>, <<"/", "/">> },
        netloc \in UrlNetlocs, path \in { <<>>, <<"/", "p">> }}

\* Most words of a content moderate_content is called on
MaxWords == 2

\* Words that hold a blocked keyword, match a suspicious pattern, do both,
\* hold a pattern's word inside a longer word, or do neither
Words ==
    { <<"H", "a", "t", "e">>, (* "ILLEGAL" *) <<"I", "L", "L", "E", "G", "A", "L">>, (* "adulthood" *) <<"a", "d", "u", "l", "t", "h", "o", "o", "d">>, <<"k", "i", "l", "l">>, <<"H", "a", "c", "k">>, (* "hacker" *) <<"h", "a", "c", "k", "e", "r">>,
      <<"o", "k">>, <<>> }

Contents == {Join(<<" ">>, ws) : ws \in UNION {[1..n -> Words] : n \in 0..MaxWords}}

FnInputs ==
    {[fn |-> "aggregate_safety_checks", arg |-> checks] : checks \in CheckLists}
    \cup {[fn |-> "is_trusted_domain", arg |-> url] : url \in Urls}
    \cup {[fn |-> "validate_url", arg |-> url] : url \in Urls}
    \cup {[fn |-> "moderate_content", arg |-> content] : content \in Contents}

FnInit ==
    /\ LimiterInit
    /\ NoTasks
    /\ NoApi
    /\ MAX_RETRIES = 0
    /\ state = create_initial_state(<<>>, 0)
    /\ pc = "unit"
    /\ steps = <<>>
    /\ ret = NoReturn
    /\ report = <<>>
    /\ provider_answered = FALSE
    /\ graph_error = <<>>
    /\ unit_in \in FnInputs
    /\ unit_call = NoUnit

\* The call returns: unit_call holds the value it returned
FnReturns(fn, value) ==
    /\ pc = "unit"
    /\ unit_in.fn = fn
    /\ unit_call' = [node |-> fn, result |-> value]
    /\ pc' = "done"
    /\ UNCHANGED <<limiter_vars, store_vars, api_vars, MAX_RETRIES, state, steps, ret, report,
                   provider_answered, graph_error, unit_in>>

Aggregate == FnReturns("aggregate_safety_checks", aggregate_safety_checks(unit_in.arg))

IsTrusted == FnReturns("is_trusted_domain", is_trusted_domain(unit_in.arg))

ValidateUrl == FnReturns("validate_url", validate_url(unit_in.arg))

Moderate == FnReturns("moderate_content", moderate_content(unit_in.arg))

FnNext ==
    \/ Aggregate
    \/ IsTrusted
    \/ ValidateUrl
    \/ Moderate

SpecFns == FnInit /\ [][FnNext]_vars

\* ------------------------------------------------------------------------
\* The nodes called on their own through tools.py: what the client of the
\* language model or of the search provider did is the input (unit_call
\* keeps it), the node gets what GeminiLLM / TavilySearchTool made of it
\* ------------------------------------------------------------------------
ToolCall(node, reply, r) ==
    /\ unit_in' = [node |-> node, state |-> state]
    /\ unit_call' = [node |-> node, reply |-> reply]
    /\ state' = r.state
    /\ ret' = Outcome(r)
    /\ steps' = <<node>>
    /\ pc' = IF r.raised THEN "done" ELSE Route(node, r.state)
    /\ UNCHANGED <<limiter_vars, store_vars, api_vars, MAX_RETRIES, report, provider_answered,
                   graph_error>>

CallPlan ==
    /\ pc = "unit"
    /\ \E reply \in PlanReplies :
           ToolCall("plan", reply,
                    plan_node(state, generate_plan(state.research_query, reply)))

CallSearch ==
    /\ pc = "unit"
    /\ \E answers \in ProviderAnswers(state) :
           ToolCall("search", answers,
                    search_node(state, [k \in DOMAIN answers |-> search(answers[k])]))

CallReflexion ==
    /\ pc = "unit"
    /\ \E reply \in ReflexionReplies :
           ToolCall("reflexion", reply,
                    reflexion_node(state,
                        perform_reflexion(state.research_query, state.draft,
                                          ErrorContext(state), reply)))

\* synthesize_node awaits self.llm.synthesize_research only after its check
\* of state['sources']: the replies are those of the calls it made
CallSynthesize ==
    /\ pc = "unit"
    /\ \E replies \in (IF state.sources = <<>> THEN {<<>>}
                        ELSE {<<reply>> : reply \in SynthesisReplies}) :
           ToolCall("synthesize", replies,
                    synthesize_node(state,
                        IF replies = <<>> THEN Raised(<<>>)
                        ELSE synthesize_research(state.research_query, state.sources,
                                                 replies[1])))

CallsNext ==
    \/ CallPlan
    \/ CallSearch
    \/ CallSynthesize
    \/ CallReflexion

SpecCalls == UnitInit /\ [][CallsNext]_vars

\* ------------------------------------------------------------------------
\* Several calls of run_research and resume_from_checkpoint in progress on
\* one ResearchWorkflow: asyncio runs one of them at a time and switches at
\* the awaits, which lie between the nodes
\* ------------------------------------------------------------------------
\* The thread ids a caller passes to run_research, "None" if it passes none
ThreadIdArgs == {"None", "a"}

RunsInit ==
    /\ LimiterInit
    /\ NoRun
    /\ NoApi
    /\ checkpointer \in BOOLEAN
    /\ checkpoints = [thread \in ThreadIds |-> NoCheckpoint]
    /\ tasks = [t \in Tasks |-> NoTask]

\* The language model answers with a fenced JSON block; the search provider
\* answers every query with the same single result
Answered(replies) == {reply \in replies : ~reply.raised /\ reply.value.fenced}
Found == {answer \in ProviderResponses : ~answer.raised /\ Len(answer.value) = 1}

\* The states the node the graph runs next can return on state s
NodeResults(node, s) ==
    CASE node = "plan" ->
             {plan_node(s, generate_plan(s.research_query, reply)).state :
                 reply \in Answered(PlanReplies)}
      [] node = "search" ->
             {search_node(s, [k \in 1..Len(SearchedQueries(s)) |-> search(answer)]).state :
                 answer \in Found}
      [] node = "validate" ->
             {validate_node(s, Returned(validate_search_results(s.sources))).state}
      [] node = "synthesize" ->
             {synthesize_node(s, synthesize_research(s.research_query, s.sources, reply)).state :
                 reply \in Answered(SynthesisReplies)}
      [] node = "safety" ->
             {safety_node(s, Returned(validate_final_output(s.draft))).state}
      [] node = "reflexion" ->
             {reflexion_node(s, perform_reflexion(s.research_query, s.draft,
                                                  ErrorContext(s), reply)).state :
                 reply \in Answered(ReflexionReplies)}

\* The checkpointer files the state of call t under its thread
Put(t, values, next) ==
    IF tasks[t].thread = "none"
    THEN UNCHANGED checkpoints
    ELSE checkpoints' = [checkpoints EXCEPT ![tasks[t].thread] =
                            [values |-> values, next |-> next, by |-> @.by \cup {t}]]

\* TavilySearchTool.search: check_rate_limit() before each query of a search step
RECURSIVE ConsumeEach(_, _)
ConsumeEach(self, n) ==
    IF n = 0 THEN self ELSE ConsumeEach(consume(self, Whole, now).self, n - 1)

\* run_research up to graph.ainvoke taking initial_state in: the graph looks
\* up the thread of its config and files the input under it
RunTask(t) ==
    /\ tasks[t].kind = "none"
    /\ \E query \in Queries, thread_id \in ThreadIdArgs :
           LET initial_state == create_initial_state(query, MAX_RETRIES)
               thread == IF checkpointer THEN ConfigThread(thread_id) ELSE "none"
           IN /\ tasks' = [tasks EXCEPT ![t] =
                     [kind |-> "run", thread |-> thread, state |-> initial_state,
                      pc |-> "plan", steps |-> <<>>, ret |-> NoReturn, stored |-> FALSE,
                      loaded |-> IF checkpointer THEN checkpoints[thread].by ELSE {}]]
              /\ IF checkpointer
                 THEN checkpoints' = [checkpoints EXCEPT ![thread] =
                          [values |-> initial_state, next |-> "plan", by |-> @.by \cup {t}]]
                 ELSE UNCHANGED checkpoints
    /\ UNCHANGED <<run_vars, api_vars, limiter_vars, checkpointer>>

\* One super-step of the graph in call t
TaskStep(t) ==
    /\ tasks[t].kind # "none"
    /\ tasks[t].pc \in Nodes
    /\ \E s \in NodeResults(tasks[t].pc, tasks[t].state) :
           LET next == Route(tasks[t].pc, s)
           IN /\ tasks' = [tasks EXCEPT ![t].state = s, ![t].pc = next,
                                        ![t].steps = Append(@, tasks[t].pc)]
              /\ Put(t, s, next)
    /\ bucket' = IF tasks[t].pc = "search"
                 THEN ConsumeEach(bucket, Len(SearchedQueries(tasks[t].state)))
                 ELSE bucket
    /\ UNCHANGED <<run_vars, api_vars, now, callers, granted, refilled, checkpointer, provider_calls>>

\* graph.ainvoke returned: return final_state
TaskReturn(t) ==
    /\ tasks[t].kind # "none"
    /\ tasks[t].pc = "end"
    /\ tasks' = [tasks EXCEPT ![t].pc = "done", ![t].ret = Outcome(NodeReturn(tasks[t].state))]
    /\ UNCHANGED <<run_vars, api_vars, limiter_vars, checkpointer, checkpoints>>

\* resume_from_checkpoint(thread_id) up to graph.ainvoke(None, config) taking
\* up the thread's checkpoint, or to the ValueError leaving the call
ResumeTask(t) ==
    /\ tasks[t].kind = "none"
    /\ \E thread_id \in ThreadIds :
           LET r == resume_from_checkpoint(checkpointer, thread_id, checkpoints[thread_id])
               stored == checkpointer /\ checkpoints[thread_id].by # {}
           IN tasks' = [tasks EXCEPT ![t] =
                  IF r.raised
                  THEN [kind |-> "resume", thread |-> thread_id, state |-> <<>>,
                        pc |-> "done", steps |-> <<>>,
                        ret |-> [kind |-> "raised", state |-> <<>>, error |-> r.error],
                        stored |-> stored, loaded |-> {}]
                  ELSE [kind |-> "resume", thread |-> thread_id, state |-> r.value.values,
                        pc |-> r.value.next, steps |-> <<>>, ret |-> NoReturn,
                        stored |-> stored, loaded |-> r.value.by]]
    /\ UNCHANGED <<run_vars, api_vars, limiter_vars, checkpointer, checkpoints>>

RunsNext ==
    \/ \E t \in Tasks : RunTask(t)
    \/ \E t \in Tasks : TaskStep(t)
    \/ \E t \in Tasks : TaskReturn(t)
    \/ \E t \in Tasks : ResumeTask(t)

SpecRuns == RunsInit /\ [][RunsNext]_vars

\* ------------------------------------------------------------------------
\* api/auth.py: AuthManager over data/users.json, and the bearer token
\* ------------------------------------------------------------------------
\* Most research requests created
MaxRequests == 2

\* Optional values: None, or the value
None == <<>>
Some(v) == <<v>>

\* f with key k set to v (a dict assignment)
Extend(f, k, v) == [x \in DOMAIN f \cup {k} |-> IF x = k THEN v ELSE f[x]]

Usernames == {"ann", "bob"}
Emails == {"ann@x.org", "bob@x.org"}
Passwords == {"secret", "guess"}

HTTPException(status_code, detail) == [status_code |-> status_code, detail |-> detail]

UserCreate(username, email, password) ==
    [username |-> username, email |-> email, password |-> password]

\* UserInDB as create_user builds it; the bcrypt hash is kept as the
\* password it was made from, verify_password compares with it
UserInDB(user_create) ==
    [username |-> user_create.username, email |-> user_create.email,
     hashed_password |-> user_create.password, disabled |-> FALSE]

verify_password(plain_password, hashed_password) == plain_password = hashed_password

\* create_user on the users it loaded: Raised(HTTPException), or Returned
\* with the users it saves
create_user(users, user_create) ==
    IF user_create.username \in DOMAIN users
    THEN Raised(HTTPException(400, "Username already registered"))
    ELSE IF \E existing \in DOMAIN users : users[existing].email = user_create.email
    THEN Raised(HTTPException(400, "Email already registered"))
    ELSE Returned(Extend(users, user_create.username, UserInDB(user_create)))

\* authenticate_user: the user, or None
authenticate_user(users, username, password) ==
    IF username \notin DOMAIN users THEN None
    ELSE IF ~verify_password(password, users[username].hashed_password) THEN None
    ELSE Some(users[username])

\* The Authorization header of a request: absent, or a bearer token that
\* jwt.decode accepts (signed with the key, not expired) or not, whose
\* payload names a user in "sub" or has no "sub" ("None")
NoCredentials == [present |-> FALSE, signed |-> FALSE, sub |-> "None"]
Bearer(signed, sub) == [present |-> TRUE, signed |-> signed, sub |-> sub]

\* create_access_token(data={"sub": username})
create_access_token(username) == Bearer(TRUE, username)

\* verify_token: the username, or "None"
verify_token(token) == IF token.signed THEN token.sub ELSE "None"

\* What HTTPBearer() answers a request without bearer credentials: 403 in
\* the FastAPI releases up to 0.121, 401 from 0.122 on
NotAuthenticated == {401, 403}

\* Depends(get_current_active_user): Returned(user) or Raised(HTTPException)
get_current_user(credentials, users, not_authenticated) ==
    IF ~credentials.present
    THEN Raised(HTTPException(not_authenticated, "Not authenticated"))
    ELSE LET username == verify_token(credentials)
         IN IF username = "None" \/ username \notin DOMAIN users
            THEN Raised(HTTPException(401, "Could not validate credentials"))
            ELSE IF users[username].disabled
            THEN Raised(HTTPException(400, "Inactive user"))
            ELSE Returned(users[username])

\* ------------------------------------------------------------------------
\* api/research_manager.py: ResearchManager over data/research/*.json
\* ------------------------------------------------------------------------
create_request(request_id, query, username) ==
    [request_id |-> request_id, status |-> "pending", query |-> query,
     username |-> username, created_at |-> request_id,
     draft |-> None, is_safe |-> None, error_message |-> None]

\* start_research that does not look at the status of the request
start_research_unguarded(found) ==
    IF found = None
    THEN [result |-> FALSE, request_data |-> found]
    ELSE [result |-> TRUE, request_data |-> Some([found[1] EXCEPT !.status = "running"])]

\* start_research on what get_request found: whether it returns True (and
\* creates the task of _execute_research), and the request data it leaves
start_research(found) ==
    IF found = None \/ found[1].status # "pending"
    THEN [result |-> FALSE, request_data |-> found]
    ELSE [result |-> TRUE, request_data |-> Some([found[1] EXCEPT !.status = "running"])]

\* _execute_research once run_research has returned or raised
execute_research(request_data, run) ==
    IF run.kind = "returned"
    THEN [request_data EXCEPT !.status = "completed",
                              !.draft = Some(run.state.draft),
                              !.is_safe = Some(run.state.is_safe)]
    ELSE [request_data EXCEPT !.status = "failed", !.error_message = Some(run.error)]

\* api/audit.py: the entry log_research_start, log_research_complete and
\* log_research_failure append to the log file
AuditEntry(action, username, request_id) ==
    [action |-> action, username |-> username, request_id |-> request_id]

log_research_start(log, username, request_id) ==
    Append(log, AuditEntry("research_start", username, request_id))

\* _execute_research that logs a completion whatever run_research did
log_research_end_always_complete(log, request_data, run) ==
    Append(log, AuditEntry("research_complete", request_data.username,
                           request_data.request_id))

\* The entry _execute_research writes when run_research has returned or raised
log_research_end(log, request_data, run) ==
    Append(log, AuditEntry(IF run.kind = "returned" THEN "research_complete"
                                                    ELSE "research_failed",
                           request_data.username, request_data.request_id))

\* asyncio.create_task(self._execute_research(request_id))
Task(request_id) == [request_id |-> request_id, done |-> FALSE]

\* get_request: memory first, then the file, else None
get_request(active_requests, files, request_id) ==
    IF request_id \in DOMAIN active_requests THEN Some(active_requests[request_id])
    ELSE IF request_id \in DOMAIN files THEN Some(files[request_id])
    ELSE None

\* The ids in ids newest first (sort by created_at, reverse=True)
RECURSIVE NewestFirst(_, _)
NewestFirst(files, ids) ==
    IF ids = {} THEN <<>>
    ELSE LET newest == CHOOSE i \in ids :
                           \A j \in ids : files[j].created_at <= files[i].created_at
         IN <<files[newest]>> \o NewestFirst(files, ids \ {newest})

\* get_user_requests without the test of data.get("username")
get_user_requests_of_all(files, username, page, per_page) ==
    LET all_requests == NewestFirst(files, DOMAIN files)
        start == (page - 1) * per_page
    IN [requests |-> SubSeq(all_requests, start + 1,
                            Min({start + per_page, Len(all_requests)})),
        total |-> Len(all_requests)]

\* get_user_requests: the page asked for, and the total
get_user_requests(files, username, page, per_page) ==
    LET all_requests ==
            NewestFirst(files, {i \in DOMAIN files : files[i].username = username})
        start == (page - 1) * per_page
    IN [requests |-> SubSeq(all_requests, start + 1,
                            Min({start + per_page, Len(all_requests)})),
        total |-> Len(all_requests)]

to_summary_model(request_data) ==
    [request_id |-> request_data.request_id, status |-> request_data.status,
     query |-> request_data.query, username |-> request_data.username]


\* ------------------------------------------------------------------------
\* api/main.py: the endpoints, each served by one of the worker processes
\* that share data/users.json and data/research/
\* ------------------------------------------------------------------------
\* The "sub" of the tokens presented: the users, someone who never
\* registered, and no "sub" at all
Subjects == Usernames \cup {"eve", "None"}

Credentials ==
    {NoCredentials, Bearer(FALSE, "ann")} \cup {Bearer(TRUE, sub) : sub \in Subjects}

\* data/users.json once ann and bob have registered
Registered ==
    [username \in Usernames |->
        UserInDB(UserCreate(username, username \o "@x.org", "secret"))]

\* A worker is free to take a request; the client reads one response at a
\* time
Free(w) == workers[w].handler = "idle" /\ response = NoResponse

\* How the try block of _execute_research ends for a query: run_research
\* returns a completed run with a safe draft, or a run that used up its
\* retries with an unsafe draft, or an exception leaves the block
RunOutcomes(query) ==
    LET initial_state == create_initial_state(query, 0)
    IN {Outcome(NodeReturn([initial_state EXCEPT !.draft = DraftedAt,
                                                 !.current_step = "completed"])),
        Outcome(NodeReturn([initial_state EXCEPT !.draft = ApiError, !.is_safe = FALSE,
                                                 !.current_step = "max_retries_reached"])),
        Outcome(NodeRaise(initial_state, ApiError))}

Respond(endpoint, credentials, request, status_code, body) ==
    response' = [endpoint |-> endpoint, credentials |-> credentials, request |-> request,
                 status_code |-> status_code, body |-> body]

\* POST /auth/register up to the return of _load_users
RegisterLoads(w) ==
    /\ Free(w)
    /\ \E username \in Usernames, email \in Emails :
           workers' = [workers EXCEPT ![w].handler = "register",
                                      ![w].users = users_file,
                                      ![w].user_create = UserCreate(username, email, "secret")]
    /\ UNCHANGED <<run_vars, limiter_vars, store_vars, users_file, request_files, response,
                   accepted, created,
                   audit_log, background>>

\* POST /auth/register from the checks of create_user to the response
RegisterSaves(w) ==
    /\ workers[w].handler = "register"
    /\ response = NoResponse
    /\ LET user_create == workers[w].user_create
           new_users == create_user(workers[w].users, user_create)
       IN IF new_users.raised
          THEN /\ Respond("register", NoCredentials, user_create,
                          new_users.error.status_code, None)
               /\ UNCHANGED <<users_file, accepted>>
          ELSE /\ users_file' = new_users.value
               /\ accepted' = accepted \cup {user_create.username}
               /\ Respond("register", NoCredentials, user_create, 200,
                          Some(user_create.username))
    /\ workers' = [workers EXCEPT ![w].handler = "idle", ![w].users = <<>>,
                                  ![w].user_create = NoWorker.user_create]
    /\ UNCHANGED <<run_vars, limiter_vars, store_vars, request_files, created,
                   audit_log, background>>

\* POST /auth/login; the last_login that authenticate_user saves is not kept
Login(w) ==
    /\ Free(w)
    /\ \E username \in Subjects \ {"None"}, password \in Passwords :
           LET user == authenticate_user(users_file, username, password)
               user_login == [username |-> username, password |-> password]
           IN IF user = None
              THEN Respond("login", NoCredentials, user_login, 401, None)
              ELSE Respond("login", NoCredentials, user_login, 200,
                           Some(create_access_token(user[1].username)))
    /\ UNCHANGED <<run_vars, limiter_vars, store_vars, users_file, request_files, workers,
                   accepted, created,
                   audit_log, background>>

\* POST /research
CreateResearch(w) ==
    /\ Free(w)
    /\ \E credentials \in Credentials, not_authenticated \in NotAuthenticated :
           LET current_user == get_current_user(credentials, users_file, not_authenticated)
               request_id == Cardinality(DOMAIN request_files) + 1
           IN IF current_user.raised
              THEN /\ Respond("create_research", credentials, None,
                              current_user.error.status_code, None)
                   /\ UNCHANGED <<request_files, workers, created>>
              ELSE /\ request_id <= MaxRequests
                   /\ \E query \in Queries :
                       LET request_data ==
                               start_research(Some(create_request(request_id, query,
                                   current_user.value.username))).request_data[1]
                       IN /\ request_files' = Extend(request_files, request_id, request_data)
                          /\ workers' = [workers EXCEPT ![w].active_requests =
                                             Extend(@, request_id, request_data)]
                          /\ created' = Extend(created, request_id,
                                               current_user.value.username)
                          /\ Respond("create_research", credentials, Some(query), 200,
                                     Some(request_data))
    /\ UNCHANGED <<run_vars, limiter_vars, store_vars, users_file, accepted,
                   audit_log, background>>

\* The background task of a request: _execute_research from the return of
\* run_research to the save in its finally
ExecuteResearch(w) ==
    /\ response = NoResponse
    /\ \E request_id \in DOMAIN workers[w].active_requests :
           LET request_data == workers[w].active_requests[request_id]
           IN /\ request_data.status = "running"
              /\ \E run \in RunOutcomes(request_data.query) :
                     LET final == execute_research(request_data, run)
                     IN /\ request_files' = [request_files EXCEPT ![request_id] = final]
                        /\ workers' = [workers EXCEPT
                                           ![w].active_requests[request_id] = final]
    /\ UNCHANGED <<run_vars, limiter_vars, store_vars, users_file, response, accepted,
                   created, audit_log, background>>

\* GET /research/{request_id}
GetResearch(w) ==
    /\ Free(w)
    /\ \E credentials \in Credentials, not_authenticated \in NotAuthenticated :
           LET current_user == get_current_user(credentials, users_file, not_authenticated)
           IN IF current_user.raised
              THEN Respond("get_research", credentials, None,
                           current_user.error.status_code, None)
              ELSE \E request_id \in 1..(MaxRequests + 1) :
                       LET request_data == get_request(workers[w].active_requests,
                                                       request_files, request_id)
                       IN IF request_data = None
                          THEN Respond("get_research", credentials, Some(request_id),
                                       404, None)
                          ELSE IF request_data[1].username # current_user.value.username
                          THEN Respond("get_research", credentials, Some(request_id),
                                       403, None)
                          ELSE Respond("get_research", credentials, Some(request_id),
                                       200, request_data)
    /\ UNCHANGED <<run_vars, limiter_vars, store_vars, users_file, request_files, workers,
                   accepted, created,
                   audit_log, background>>

\* GET /research?page=&per_page=
ListResearch(w) ==
    /\ Free(w)
    /\ \E credentials \in Credentials, not_authenticated \in NotAuthenticated :
           LET current_user == get_current_user(credentials, users_file, not_authenticated)
           IN IF current_user.raised
              THEN Respond("list_research", credentials, None,
                           current_user.error.status_code, None)
              ELSE \E page \in 1..(MaxRequests + 1), asked \in {1, 101} :
                       LET per_page == IF asked > 100 THEN 100 ELSE asked
                           found == get_user_requests(request_files,
                                        current_user.value.username, page, per_page)
                       IN Respond("list_research", credentials,
                                  Some([page |-> page, per_page |-> per_page]), 200,
                                  Some([total |-> found.total,
                                        items |-> [i \in DOMAIN found.requests |->
                                                      to_summary_model(found.requests[i])]]))
    /\ UNCHANGED <<run_vars, limiter_vars, store_vars, users_file, request_files, workers,
                   accepted, created,
                   audit_log, background>>

\* GET /profile
GetProfile(w) ==
    /\ Free(w)
    /\ \E credentials \in Credentials, not_authenticated \in NotAuthenticated :
           LET current_user == get_current_user(credentials, users_file, not_authenticated)
               found == get_user_requests(request_files, current_user.value.username,
                                          1, 1000)
           IN IF current_user.raised
              THEN Respond("get_profile", credentials, None,
                           current_user.error.status_code, None)
              ELSE Respond("get_profile", credentials, None, 200,
                           Some([username |-> current_user.value.username,
                                 email |-> current_user.value.email,
                                 total_research_requests |-> found.total]))
    /\ UNCHANGED <<run_vars, limiter_vars, store_vars, users_file, request_files, workers,
                   accepted, created,
                   audit_log, background>>

\* GET /audit; the entries are those logged under the caller's username
GetAuditLogs(w) ==
    /\ Free(w)
    /\ \E credentials \in Credentials, not_authenticated \in NotAuthenticated :
           LET current_user == get_current_user(credentials, users_file, not_authenticated)
           IN IF current_user.raised
              THEN Respond("get_audit_logs", credentials, None,
                           current_user.error.status_code, None)
              ELSE Respond("get_audit_logs", credentials, None, 200,
                           Some([username |-> current_user.value.username]))
    /\ UNCHANGED <<run_vars, limiter_vars, store_vars, users_file, request_files, workers,
                   accepted, created,
                   audit_log, background>>

\* The client has read the response
Receive ==
    /\ response # NoResponse
    /\ response' = NoResponse
    /\ UNCHANGED <<run_vars, limiter_vars, store_vars, users_file, request_files, workers,
                   accepted, created,
                   audit_log, background>>

UsersInit ==
    /\ LimiterInit
    /\ NoRun
    /\ NoTasks
    /\ NoApi

UsersNext ==
    \/ Receive
    \/ \E w \in Workers :
           \/ RegisterLoads(w)
           \/ RegisterSaves(w)
           \/ Login(w)

SpecUsers == UsersInit /\ [][UsersNext]_vars

ApiInit ==
    /\ LimiterInit
    /\ NoRun
    /\ NoTasks
    /\ users_file = Registered
    /\ request_files = <<>>
    /\ workers = [w \in Workers |-> NoWorker]
    /\ response = NoResponse
    /\ accepted = Usernames
    /\ created = <<>>
    /\ audit_log = <<>>
    /\ background = <<>>

ApiNext ==
    \/ Receive
    \/ \E w \in Workers :
           \/ Login(w)
           \/ CreateResearch(w)
           \/ ExecuteResearch(w)
           \/ GetResearch(w)
           \/ ListResearch(w)
           \/ GetProfile(w)
           \/ GetAuditLogs(w)

SpecApi == ApiInit /\ [][ApiNext]_vars


\* ------------------------------------------------------------------------
\* The ResearchManager on its own: one process, its methods called in any
\* order on any request id, its background tasks run by the event loop
\* ------------------------------------------------------------------------
\* research_manager = ResearchManager(): the one instance of the process
Manager == "w1"

ManagerInit ==
    /\ LimiterInit
    /\ NoRun
    /\ NoTasks
    /\ NoApi

\* What a method call returned
Called(method, request_id, result) ==
    response' = [endpoint |-> method, request |-> request_id, result |-> result]

\* The request data of request_id in memory and on file become request_data
Saved(request_id, request_data) ==
    /\ request_files' = Extend(request_files, request_id, request_data)
    /\ workers' = [workers EXCEPT ![Manager].active_requests =
                       Extend(@, request_id, request_data)]

\* create_request(query, username): uuid4 gives an id no request has
CreateRequest ==
    LET request_id == Cardinality(DOMAIN request_files) + 1
    IN /\ request_id <= MaxRequests
       /\ \E query \in Queries, username \in Usernames :
              /\ Saved(request_id, create_request(request_id, query, username))
              /\ created' = Extend(created, request_id, username)
              /\ audit_log' = log_research_start(audit_log, username, request_id)
       /\ Called("create_request", request_id, TRUE)
       /\ UNCHANGED <<run_vars, limiter_vars, store_vars, users_file, accepted, background>>

\* start_research(request_id), of a request that exists or not
StartResearch ==
    /\ \E request_id \in 1..MaxRequests :
           LET r == start_research(get_request(workers[Manager].active_requests,
                                               request_files, request_id))
           IN /\ Called("start_research", request_id, r.result)
              /\ IF r.result
                 THEN /\ Saved(request_id, r.request_data[1])
                      /\ background' = Append(background, Task(request_id))
                 ELSE UNCHANGED <<request_files, workers, background>>
    /\ UNCHANGED <<run_vars, limiter_vars, store_vars, users_file, accepted, created,
                   audit_log>>

\* A task of _execute_research runs to its end: run_research returns or
\* raises, the request is updated, the entry logged and the request saved
ExecuteTask ==
    /\ \E k \in DOMAIN background :
           LET request_id == background[k].request_id
               found == get_request(workers[Manager].active_requests, request_files,
                                    request_id)
           IN /\ ~background[k].done
              /\ found # None
              /\ \E run \in RunOutcomes(found[1].query) :
                     /\ Saved(request_id, execute_research(found[1], run))
                     /\ audit_log' = log_research_end(audit_log, found[1], run)
              /\ background' = [background EXCEPT ![k].done = TRUE]
    /\ response' = NoResponse
    /\ UNCHANGED <<run_vars, limiter_vars, store_vars, users_file, accepted, created>>

ManagerNext ==
    \/ CreateRequest
    \/ StartResearch
    \/ ExecuteTask

SpecManager == ManagerInit /\ [][ManagerNext]_vars

\* The event loop runs every task it was given
FairManager == SpecManager /\ WF_api_vars(ExecuteTask)
\* ------------------------------------------------------------------------
\* Properties
\* ------------------------------------------------------------------------
Runs(node) == Cardinality({i \in DOMAIN steps : steps[i] = node})
LastStep == IF steps = <<>> THEN "none" ELSE steps[Len(steps)]
Ended == pc = "done" /\ ret.kind = "returned"

\* C1: whatever the language model and the search provider do, a run ends,
\* Plan runs at most max_retries + 1 times and Reflexion at most
\* max_retries times.
C1_RunTerminates ==
    /\ <>(pc = "done")
    /\ [](Runs("plan") <= MAX_RETRIES + 1 /\ Runs("reflexion") <= MAX_RETRIES)

C1_Witness ==
    /\ Ended
    /\ MAX_RETRIES >= 1
    /\ Runs("plan") = MAX_RETRIES + 1
    /\ Runs("reflexion") = MAX_RETRIES

\* C2: in every state of a run 0 <= retry_count <= max_retries, also in the
\* state the run hands back.
C2_RetryCountBounded ==
    /\ 0 <= state.retry_count /\ state.retry_count <= state.max_retries
    /\ Ended => 0 <= ret.state.retry_count /\ ret.state.retry_count <= ret.state.max_retries

C2_Witness ==
    /\ LastStep = "reflexion"
    /\ state.current_step = "retry_planning"
    /\ state.max_retries >= 2
    /\ state.retry_count = state.max_retries

\* The run was started with max_retries = 1 and has got no search result
\* for any query: the provider returned none, or failed, which the search
\* tool reports as none
NoResultsOneRetry == MAX_RETRIES = 1 /\ ~provider_answered /\ pc # "idle"

\* C3 as stated: with no search result for any query and max_retries = 1 the
\* run ends with max_retries_reached or reflexion_failed (the graph runtime
\* not failing), and is never completed.
C3_Original ==
    NoResultsOneRetry =>
        /\ state.current_step # "completed"
        /\ (Ended /\ graph_error = <<>>)
               => ret.state.current_step \in {"max_retries_reached", "reflexion_failed"}

\* C3 amended: with no search result for any query and max_retries = 1 the
\* run terminates, is never completed, and ends with max_retries_reached,
\* reflexion_failed, or search_complete (the retry was taken and the second
\* search found nothing either); workflow_failed if the graph runtime failed.
C3_NoResultsEndsUncompleted ==
    /\ <>(pc = "done")
    /\ [](NoResultsOneRetry =>
            /\ state.current_step # "completed"
            /\ Ended => ret.state.current_step \in
                            IF graph_error = <<>>
                            THEN {"max_retries_reached", "reflexion_failed", "search_complete"}
                            ELSE {"workflow_failed"})

C3_Witness ==
    /\ NoResultsOneRetry
    /\ Ended
    /\ Runs("search") = 2
    /\ ret.state.current_step = "search_complete"
    /\ ret.state.retry_count = 1

\* Outcomes a run can end with although nothing was recorded: the routers
\* end the run after a search or a validation that left no source once no
\* retry remains, and Reflexion gives up when the model advises no retry.
UnexplainedEndings == {"search_complete", "validation_complete", "max_retries_reached"}

\* C4 as stated: a run that ends with a current_step other than completed
\* has a non-empty errors or warnings list.
C4_Original ==
    (Ended /\ ret.state.current_step # "completed")
        => (ret.state.errors # <<>> \/ ret.state.warnings # <<>>)

\* C4 amended: a run that ends with a current_step other than completed,
\* search_complete, validation_complete and max_retries_reached has a
\* non-empty errors or warnings list (a run ending with one of those three
\* can have both lists empty).
C4_FailedOutcomeIsExplained ==
    (Ended /\ ret.state.current_step \notin {"completed"} \cup UnexplainedEndings)
        => (ret.state.errors # <<>> \/ ret.state.warnings # <<>>)

C4_Witness ==
    /\ Ended
    /\ ret.state.current_step = "safety_failed"
    /\ ret.state.errors = <<>>
    /\ ret.state.warnings # <<>>

\* C5: run_research never raises; when graph.ainvoke raised, the state it
\* returns has current_step = workflow_failed and the exception's message
\* as the last entry of errors.
C5_RunResearchNeverRaises ==
    /\ ret.kind # "raised"
    /\ graph_error # <<>> =>
           /\ Ended
           /\ ret.state.current_step = "workflow_failed"
           /\ ret.state.errors # <<>>
           /\ ret.state.errors[Len(ret.state.errors)]
                  = (* "Workflow execution failed: " *) <<"W", "o", "r", "k", "f", "l", "o", "w", " ", "e", "x", "e", "c", "u", "t", "i", "o", "n", " ", "f", "a", "i", "l", "e", "d", ":", " ">> \o graph_error

C5_Witness ==
    /\ graph_error # <<>>
    /\ Ended
    /\ Len(steps) >= 2
    /\ ret.state.current_step = "workflow_failed"

FailedOutcomeOf ==
    [n \in Nodes |->
        CASE n = "plan" -> "planning_failed"
          [] n = "search" -> "search_failed"
          [] n = "validate" -> "validation_failed"
          [] n = "synthesize" -> "synthesis_failed"
          [] n = "safety" -> "safety_validation_failed"
          [] n = "reflexion" -> "reflexion_failed"]

UnitDone == pc # "unit" /\ unit_call.node \in Nodes

\* C6: each of the six step functions returns a state on every input and
\* whatever its awaited call does; when an exception occurs in it, one
\* message carrying the exception's text is appended to errors and
\* current_step is the step's failed outcome.
C6_StepsCatchExceptions ==
    UnitDone =>
        /\ ret.kind = "returned"
        /\ unit_call.raised =>
               /\ state.current_step = FailedOutcomeOf[unit_call.node]
               /\ Len(state.errors) = Len(unit_in.state.errors) + 1
               /\ IsPrefix(unit_in.state.errors, state.errors)
               /\ EndsWith(state.errors[Len(state.errors)], unit_call.error)

C6_Witness ==
    /\ UnitDone
    /\ unit_call.node = "plan"
    /\ unit_call.raised
    /\ unit_in.state.errors # <<>>
    /\ state.current_step = "planning_failed"

\* C7: after Search the router picks validate iff current_step is
\* search_complete and sources is non-empty, reflexion iff (search_complete
\* with no sources, or search_failed) and retry_count < max_retries, and
\* end in every other case.
C7_RouteAfterSearch ==
    (UnitDone /\ unit_call.node = "search" /\ ret.kind = "returned") =>
        /\ pc \in {"validate", "reflexion", "end"}
        /\ pc = "validate" <=>
               (state.current_step = "search_complete" /\ state.sources # <<>>)
        /\ pc = "reflexion" <=>
               /\ \/ state.current_step = "search_complete" /\ state.sources = <<>>
                  \/ state.current_step = "search_failed"
               /\ state.retry_count < state.max_retries

C7_Witness ==
    /\ UnitDone
    /\ unit_call.node = "search"
    /\ state.current_step = "search_complete"
    /\ state.sources = <<>>
    /\ state.max_retries = UnitMaxRetries
    /\ state.retry_count = state.max_retries
    /\ pc = "end"

\* C8: a run ends completed only if its last step was SafetyCheck, is_safe
\* is true, sources is non-empty and draft is the document that step found
\* safe; and once SafetyCheck reports completed no further step runs.
C8_CompletedMeansCheckedSafe ==
    /\ state.current_step = "completed" =>
           /\ LastStep = "safety"
           /\ pc \in {"end", "done"}
    /\ (Ended /\ ret.state.current_step = "completed") =>
           /\ LastStep = "safety"
           /\ ret.state.is_safe
           /\ ret.state.sources # <<>>
           /\ ret.state.draft # <<>>
           /\ ret.state.safety_checks # <<>>
           /\ ret.state.safety_checks[Len(ret.state.safety_checks)]
                  = moderate_content(ret.state.draft)
           /\ moderate_content(ret.state.draft).is_safe

C8_Witness ==
    /\ Ended
    /\ ret.state.current_step = "completed"
    /\ ret.state.retry_count >= 1

ForwardEdges ==
    {<<"plan", "search">>, <<"search", "validate">>, <<"validate", "synthesize">>,
     <<"synthesize", "safety">>}
    \cup {<<n, "reflexion">> : n \in Nodes \ {"reflexion"}}

\* C9: a run starts at Plan; its steps follow Plan, Search, Validate,
\* Synthesize, SafetyCheck in that order or go to Reflexion; the only edge
\* back is Reflexion -> Plan, taken exactly when Reflexion's outcome is
\* retry_planning, and with any other outcome of Reflexion the run ends.
C9_OnlyBackEdgeIsRetry ==
    /\ steps # <<>> => steps[1] = "plan"
    /\ steps = <<>> => pc \in {"idle", "plan", "done"}
    /\ \A i \in 1..(Len(steps) - 1) :
           <<steps[i], steps[i + 1]>> \in ForwardEdges \cup {<<"reflexion", "plan">>}
    /\ (steps # <<>> /\ pc \in Nodes) =>
           <<LastStep, pc>> \in ForwardEdges \cup {<<"reflexion", "plan">>}
    /\ (LastStep = "reflexion" /\ graph_error = <<>>) =>
           /\ pc = "plan" <=> state.current_step = "retry_planning"
           /\ state.current_step # "retry_planning" => pc \in {"end", "done"}

C9_Witness ==
    /\ \E i \in 1..(Len(steps) - 1) : steps[i] = "reflexion" /\ steps[i + 1] = "plan"
    /\ LastStep = "reflexion"
    /\ state.current_step = "max_retries_reached"
    /\ pc = "end"

\* C10: every step leaves the previous contents of safety_checks as a
\* prefix of its new value.
C10_SafetyChecksOnlyGrow ==
    [][(pc \in Nodes /\ pc' \in Nodes \cup {"end"})
          => IsPrefix(state.safety_checks, state'.safety_checks)]_vars

SearchDone == pc # "unit" /\ unit_call.node = "search" /\ state.current_step = "search_complete"

\* C11: after a Search step with outcome search_complete no two entries of
\* sources have the same url, each entry is the first of the concatenated
\* provider results with its url, sources is ordered by non-increasing score
\* and holds at most max_search_results entries.
C11_SourcesUniqueSortedCapped ==
    SearchDone =>
        LET src == state.sources
            all == unit_call.all_results
        IN /\ \A i, j \in DOMAIN src : i # j => src[i].url # src[j].url
           /\ \A i \in DOMAIN src :
                  \E k \in DOMAIN all :
                      /\ all[k] = src[i]
                      /\ \A m \in 1..(k - 1) : all[m].url # src[i].url
           /\ \A i \in 1..(Len(src) - 1) : src[i].score >= src[i + 1].score
           /\ Len(src) <= MAX_SEARCH_RESULTS

C11_Witness ==
    /\ SearchDone
    /\ Len(state.sources) = MAX_SEARCH_RESULTS
    /\ Len(unit_call.all_results) > MAX_SEARCH_RESULTS + 2
    /\ \E i, j \in DOMAIN unit_call.all_results :
           /\ i < j
           /\ unit_call.all_results[i].url = unit_call.all_results[j].url
           /\ unit_call.all_results[i].score < unit_call.all_results[j].score

\* A thread is between taking and releasing the lock
Inside(t) == callers[t].at \notin {"idle", "lock"}

\* C12: under every interleaving of consume and wait_time calls of several
\* threads at most one call is inside the bucket at a time, each call
\* leaves the bucket and returns what it would when run alone on the
\* bucket it found, no refill or deduction is lost (tokens = capacity +
\* refilled - granted whenever no call is inside), and the tokens granted
\* never exceed the capacity plus refill_rate times the elapsed time.
C12_CallsAreAtomic ==
    /\ \A t, u \in Threads : (Inside(t) /\ Inside(u)) => t = u
    /\ \A t \in Threads : Inside(t) => bucket.lock = t
    /\ \A t \in Threads :
           callers[t].at = "return" =>
               LET c == callers[t]
                   alone == consume(c.before, c.tokens, c.now_)
                   left == [bucket EXCEPT !.lock = "free"]
               IN IF c.op = "consume"
                  THEN left = alone.self /\ c.result = alone.result
                  ELSE left = c.before /\ c.result = wait_time(c.before, c.tokens)
    /\ bucket.lock = "free" => bucket.tokens = bucket.capacity + refilled - granted
    /\ 0 <= bucket.tokens /\ bucket.tokens <= bucket.capacity
    /\ granted <= bucket.capacity + bucket.refill_rate * now

C12_Witness ==
    /\ callers["t1"].at = "store"
    /\ callers["t2"].at = "lock"
    /\ callers["t2"].op = "consume"
    /\ granted > 0
    /\ refilled > 0
    /\ now > callers["t1"].now_

\* Tokens available to a call at clock reading t on bucket b
Available(b, t) ==
    Min({b.capacity, b.tokens + (t - b.last_refill) * b.refill_rate})

\* C13: consume(n) refills the bucket by elapsed time x refill rate, capped
\* at the capacity, then returns true and lowers the tokens by exactly n
\* iff that many are available; when it returns false nothing is deducted.
C13_ConsumeRefillsThenDeducts ==
    callers.op = "consume" =>
        LET available == Available(callers.before, callers.at)
        IN /\ callers.result = (available >= callers.tokens)
           /\ callers.result => bucket.tokens = available - callers.tokens
           /\ ~callers.result => bucket.tokens = available
           /\ bucket.last_refill = callers.at
           /\ available <= bucket.capacity

C13_Witness ==
    /\ callers.op = "consume"
    /\ callers.result
    /\ callers.before.tokens < callers.tokens
    /\ callers.before.tokens + tokens_to_add(callers.before, callers.at)
           > callers.before.capacity
    /\ bucket.tokens = callers.before.capacity - callers.tokens

\* C14: wait_time(n) is 0 if n tokens are in the bucket and (n - tokens) /
\* refill_rate otherwise; with no consume in between it does not grow from
\* one call to a later one; and it is 0 once enough time has passed since
\* the last refill for n tokens to be available.
C14_WaitTimeFollowsTheClock ==
    /\ [][(/\ callers.op = "wait_time"
           /\ callers'.op = "wait_time"
           /\ callers'.tokens = callers.tokens)
          => callers'.result.num * callers.result.den
                 <= callers.result.num * callers'.result.den]_vars
    /\ [](callers.op = "wait_time" =>
            /\ callers.result = IF callers.before.tokens >= callers.tokens
                                THEN Quotient(0, 1)
                                ELSE Quotient(callers.tokens - callers.before.tokens,
                                              callers.before.refill_rate)
            /\ Available(callers.before, callers.at) >= callers.tokens
                   => callers.result.num = 0)


\* ------------------------------------------------------------------------
\* SafetyValidator's functions (SpecFns)
\* ------------------------------------------------------------------------
FnDone(fn) == unit_call # NoUnit /\ unit_call.node = fn

\* C15: aggregate_safety_checks returns, for the empty list, safe with
\* confidence 0.5; for a non-empty list without an unsafe check, safe with
\* the least confidence of all checks; and for a list with an unsafe check,
\* unsafe with the greatest confidence among the unsafe checks and, as
\* flagged_content, a list without repetition of exactly the items the unsafe
\* checks flagged, the safe checks' flagged content left out.
C15_AggregateMinMaxUnion ==
    FnDone("aggregate_safety_checks") =>
        LET checks == unit_in.arg
            result == unit_call.result
            unsafe == {k \in DOMAIN checks : ~checks[k].is_safe}
        IN /\ checks = <<>> => result.is_safe /\ result.confidence = 50
           /\ checks # <<>> /\ unsafe = {} =>
                  /\ result.is_safe
                  /\ \E k \in DOMAIN checks : result.confidence = checks[k].confidence
                  /\ \A k \in DOMAIN checks : result.confidence <= checks[k].confidence
           /\ unsafe # {} =>
                  /\ ~result.is_safe
                  /\ \E k \in unsafe : result.confidence = checks[k].confidence
                  /\ \A k \in unsafe : result.confidence >= checks[k].confidence
                  /\ Range(result.flagged_content)
                         = UNION {Range(checks[k].flagged_content) : k \in unsafe}
                  /\ \A i, j \in DOMAIN result.flagged_content :
                         result.flagged_content[i] = result.flagged_content[j] => i = j

\* An unsafe verdict over a list where a safe check is the most confident and
\* carries flagged content, and two unsafe checks flag the same item
C15_Witness ==
    /\ FnDone("aggregate_safety_checks")
    /\ ~unit_call.result.is_safe
    /\ \E i, j, k \in DOMAIN unit_in.arg :
           /\ unit_in.arg[i].is_safe /\ unit_in.arg[i].flagged_content # <<>>
           /\ ~unit_in.arg[j].is_safe /\ ~unit_in.arg[k].is_safe /\ j # k
           /\ unit_in.arg[i].confidence > unit_in.arg[j].confidence
           /\ unit_in.arg[i].confidence > unit_in.arg[k].confidence
           /\ Range(unit_in.arg[j].flagged_content)
                  \cap Range(unit_in.arg[k].flagged_content) # {}

\* The scheme a url is written with, in lower case, <<>> if it has none
SchemeOf(url) == urlparse(url).scheme

\* The host of a url: what stands between "//" and the next "/", "?" or "#",
\* without userinfo and port, in lower case
HostOf(url) ==
    LET authority == urlparse(url).netloc
        ats == {i \in DOMAIN authority : authority[i] = "@"}
        hostport == IF ats = {} THEN authority ELSE From(authority, Max(ats))
    IN Lower(SubSeq(hostport, 1, FirstOf(hostport, {":"})))

\* The host with one leading www. removed
BareHost(url) ==
    IF StartsWith(HostOf(url), <<"w", "w", "w", ".">>) THEN From(HostOf(url), 4) ELSE HostOf(url)

\* C16: is_trusted_domain(url) is true exactly when the host of the url, one
\* leading www. removed, is a trusted domain or ends with "." and a trusted
\* domain.
C16_TrustedIffHostMatches ==
    FnDone("is_trusted_domain") =>
        unit_call.result =
            \E trusted \in TRUSTED_DOMAINS :
                \/ BareHost(unit_in.arg) = trusted
                \/ EndsWith(BareHost(unit_in.arg), <<".">> \o trusted)

\* C17: validate_url returns unsafe with confidence 1.0 for a url without a
\* scheme or without a host and for a url whose scheme is neither http nor
\* https; for every other url it returns is_safe = is_trusted_domain(url),
\* with confidence 0.9 if that is true and 0.3 if not.
C17_ValidateUrlVerdict ==
    FnDone("validate_url") =>
        LET url == unit_in.arg
            result == unit_call.result
        IN IF \/ SchemeOf(url) = <<>>
              \/ HostOf(url) = <<>>
              \/ SchemeOf(url) \notin { <<"h", "t", "t", "p">>, <<"h", "t", "t", "p", "s">> }
           THEN ~result.is_safe /\ result.confidence = 100
           ELSE /\ result.is_safe = is_trusted_domain(url)
                /\ result.confidence = IF is_trusted_domain(url) THEN 90 ELSE 30

\* The blocked keywords that occur in content, letter case ignored
KeywordsIn(content) ==
    {keyword \in Range(BLOCKED_KEYWORDS) : Contains(Lower(content), Lower(keyword))}

\* Some suspicious pattern matches in content: one of its words stands there
\* as a whole word, letter case ignored
PatternMatches(content) ==
    \E p \in DOMAIN suspicious_patterns :
        \E word \in Range(suspicious_patterns[p]) :
            \E i \in 1..Len(content) :
                /\ MatchesAt(Lower(content), word, i)
                /\ WordBoundary(content, i)
                /\ WordBoundary(content, i + Len(word))

\* C18: moderate_content returns safe with confidence 1.0 for empty content.
\* For non-empty content it returns safe exactly when no blocked keyword
\* occurs in the content (letter case ignored) and no suspicious pattern
\* matches; a safe result has confidence 0.8 and no flagged content, an unsafe
\* one has confidence 0.9 and every blocked keyword that occurs among its
\* flagged content.
C18_ModerationVerdict ==
    FnDone("moderate_content") =>
        LET content == unit_in.arg
            result == unit_call.result
        IN /\ content = <<>> => result.is_safe /\ result.confidence = 100
           /\ content # <<>> =>
                  /\ result.is_safe = (KeywordsIn(content) = {} /\ ~PatternMatches(content))
                  /\ result.is_safe =>
                         result.confidence = 80 /\ result.flagged_content = <<>>
                  /\ ~result.is_safe =>
                         /\ result.confidence = 90
                         /\ KeywordsIn(content) \subseteq Range(result.flagged_content)

\* Content flagged by a pattern alone next to a word that only contains a
\* pattern's word
C18_Witness ==
    /\ FnDone("moderate_content")
    /\ ~unit_call.result.is_safe
    /\ KeywordsIn(unit_in.arg) = {}
    /\ Contains(unit_in.arg, (* "hacker" *) <<"h", "a", "c", "k", "e", "r">>)

\* ------------------------------------------------------------------------
\* Calls in progress on one workflow (SpecRuns)
\* ------------------------------------------------------------------------
\* Call t has entered the graph and has not returned
InProgress(t) == tasks[t].kind # "none" /\ tasks[t].pc # "done"

\* C19: of two run_research calls in progress at the same time on one
\* workflow, neither has loaded a checkpoint the other wrote, neither has
\* written to the checkpoint thread of the other, and the checkpoint stored
\* for a run's thread is that run's own state.
C19_RunsShareOnlyTheLimiter ==
    \A t, u \in Tasks :
        (/\ t # u
         /\ tasks[t].kind = "run" /\ InProgress(t)
         /\ tasks[u].kind = "run" /\ InProgress(u)
         /\ checkpointer) =>
            /\ u \notin tasks[t].loaded
            /\ u \notin checkpoints[tasks[t].thread].by
            /\ checkpoints[tasks[t].thread].values = tasks[t].state

\* C20: a resume_from_checkpoint call made when checkpointing is disabled or
\* when the store holds nothing for its thread has raised an error and has
\* executed no node; a resume call that goes on in the graph was made for a
\* thread with a stored checkpoint and starts from that checkpoint.
C20_ResumeNeedsACheckpoint ==
    \A t \in Tasks :
        tasks[t].kind = "resume" =>
            /\ ~tasks[t].stored =>
                   /\ tasks[t].pc = "done"
                   /\ tasks[t].ret.kind = "raised"
                   /\ tasks[t].steps = <<>>
            /\ (tasks[t].pc # "done" \/ tasks[t].ret.kind = "returned") =>
                   tasks[t].stored /\ tasks[t].loaded # {}

\* With checkpointing enabled, one thread holds the checkpoints of a run and
\* a resume call for the other thread was rejected
C20_Witness ==
    /\ checkpointer
    /\ \E t, u \in Tasks :
           /\ tasks[t].kind = "resume" /\ ~tasks[t].stored
           /\ tasks[t].ret.kind = "raised"
           /\ tasks[u].kind = "run" /\ tasks[u].steps # <<>>
           /\ tasks[u].thread # tasks[t].thread

\* ------------------------------------------------------------------------
\* The API: responses of the endpoints
\* ------------------------------------------------------------------------
Answered200(endpoint) ==
    /\ response.endpoint = endpoint
    /\ response.status_code = 200

\* C21: the response to a successful POST /research reports the new request
\* with status pending, the query that was submitted and the username of
\* the caller.
C21_CreatedRequestIsPending ==
    Answered200("create_research") =>
        /\ response.body[1].status = "pending"
        /\ response.body[1].query = response.request[1]
        /\ response.body[1].username = verify_token(response.credentials)

\* The request data _execute_research stores for a request of ann once
\* run_research has ended as the run of the workflow did
Executed ==
    execute_research(start_research(Some(create_request(1, ret.state.research_query,
                                                        "ann"))).request_data[1], ret)

\* C22: whatever the run of the workflow ended with, a request whose status
\* is completed has is_safe true and a draft that is not empty.
C22_CompletedIsSafeWithDraft ==
    (pc = "done" /\ ret.kind = "returned" /\ Executed.status = "completed") =>
        /\ Executed.is_safe = Some(TRUE)
        /\ Executed.draft # Some(<<>>)

Protected ==
    {"create_research", "get_research", "list_research", "get_profile", "get_audit_logs"}

\* The request carried no bearer token, or one verify_token does not accept,
\* or one of a user who is not in the user store
Unauthenticated(credentials) ==
    \/ ~credentials.present
    \/ verify_token(credentials) = "None"
    \/ verify_token(credentials) \notin DOMAIN users_file

BadLogin(user_login) ==
    \/ user_login.username \notin DOMAIN users_file
    \/ users_file[user_login.username].hashed_password # user_login.password

\* C23: a request to a protected endpoint without bearer token, with a token
\* verify_token rejects, or with a token of a user missing from the store is
\* answered 401 without user data; a login with an unknown username or a
\* wrong password is answered 401 without a token.
C23_UnauthenticatedIs401 ==
    /\ (response.endpoint \in Protected /\ Unauthenticated(response.credentials)) =>
           (response.status_code = 401 /\ response.body = None)
    /\ (response.endpoint = "login" /\ BadLogin(response.request)) =>
           (response.status_code = 401 /\ response.body = None)

\* The user a response was made for, and the requests that user created
Caller == verify_token(response.credentials)
Own == {request_id \in DOMAIN created : created[request_id] = Caller}

\* The requests of Own that are newer than request_id
Newer(request_id) == {other \in Own : other > request_id}

StoredUnique ==
    \A u, v \in DOMAIN users_file :
        /\ users_file[u].username = u
        /\ (users_file[u].email = users_file[v].email => u = v)

\* The username or the email of user_create is in the user store
Taken(user_create) ==
    \E u \in DOMAIN users_file :
        u = user_create.username \/ users_file[u].email = user_create.email

\* C25: whatever registrations the workers serve, interleaved or not, no
\* two stored users share a username or an email and every registration
\* that was accepted is in the store; create_user answers a username or an
\* email that is registered with 400 and leaves the store as it was, and
\* otherwise adds the user.
C25_RegistrationsUniqueAndKept ==
    /\ [](StoredUnique /\ accepted \subseteq DOMAIN users_file)
    /\ [][\A w \in Workers :
             RegisterSaves(w) =>
                 IF Taken(workers[w].user_create)
                 THEN response'.status_code = 400 /\ users_file' = users_file
                 ELSE /\ response'.status_code = 200
                      /\ DOMAIN users_file' =
                             DOMAIN users_file \cup {workers[w].user_create.username}]_vars

\* ------------------------------------------------------------------------
\* The nodes and the routers, one step at a time
\* ------------------------------------------------------------------------
\* What perform_reflexion handed reflexion_node in the step just taken
Advice ==
    perform_reflexion(unit_in.state.research_query, unit_in.state.draft,
                      ErrorContext(unit_in.state), unit_call.reply).value

\* C26: a Reflexion step that ends without exception adds exactly 1 to
\* retry_count and sets current_step to retry_planning if the model advises
\* a retry and retry_count < max_retries held before the step; otherwise it
\* leaves retry_count as it was and sets max_retries_reached.
C26_ReflexionRetryPolicy ==
    (unit_call.node = "reflexion" /\ state.current_step # "reflexion_failed") =>
        IF Advice.should_retry /\ unit_in.state.retry_count < unit_in.state.max_retries
        THEN /\ state.retry_count = unit_in.state.retry_count + 1
             /\ state.current_step = "retry_planning"
        ELSE /\ state.retry_count = unit_in.state.retry_count
             /\ state.current_step = "max_retries_reached"

\* The model advised a retry in prose and none was left
C26_Witness ==
    /\ unit_call.node = "reflexion"
    /\ ~unit_call.reply.raised /\ ~unit_call.reply.value.fenced
    /\ Advice.should_retry
    /\ unit_in.state.retry_count = unit_in.state.max_retries
    /\ unit_in.state.max_retries > 0
    /\ state.current_step = "max_retries_reached"

\* What a step reported is a failure: its failed outcome, no source left
\* after search or validation, or a draft that is not safe
ReportsFailure(node, s) ==
    \/ s.current_step \in {"planning_failed", "search_failed", "validation_failed",
                           "synthesis_failed", "safety_failed", "safety_validation_failed"}
    \/ node \in {"search", "validate"} /\ s.sources = <<>>
    \/ node = "safety" /\ ~s.is_safe

Successor(node) ==
    CASE node = "plan" -> "search"
      [] node = "search" -> "validate"
      [] node = "validate" -> "synthesize"
      [] node = "synthesize" -> "safety"
      [] node = "safety" -> "end"

\* C27: after Plan, Search, Validate, Synthesize or SafetyCheck reported a
\* failure the next step is Reflexion exactly when retry_count <
\* max_retries and the run ends exactly when retry_count = max_retries;
\* without failure the next step is the one that follows in the pipeline,
\* and Synthesize follows Validate only with sources.
C27_FailureRoutesToReflexionOrEnd ==
    (unit_call.node \in {"plan", "search", "validate", "synthesize", "safety"}) =>
        IF ReportsFailure(unit_call.node, state)
        THEN /\ pc \in {"reflexion", "end"}
             /\ pc = "reflexion" <=> state.retry_count < state.max_retries
             /\ pc = "end" <=> state.retry_count = state.max_retries
        ELSE /\ pc = Successor(unit_call.node)
             /\ (pc = "synthesize" => state.sources # <<>>)

\* SafetyCheck found the draft unsafe and a retry was left
C27_Witness ==
    /\ unit_call.node = "safety"
    /\ ~unit_call.raised
    /\ ~state.is_safe
    /\ state.retry_count < state.max_retries
    /\ pc = "reflexion"

\* One message was appended to errors in the step just taken
ErrorAppended ==
    /\ Len(state.errors) = Len(unit_in.state.errors) + 1
    /\ IsPrefix(unit_in.state.errors, state.errors)

\* C28: if the search provider fails during a Search step the outcome is
\* search_failed and a message is appended to errors; search_complete is
\* the outcome only when every provider call succeeded.
C28_ProviderFailureIsSearchFailed ==
    unit_call.node = "search" =>
        /\ (\E k \in DOMAIN unit_call.reply : unit_call.reply[k].raised) =>
               (state.current_step = "search_failed" /\ ErrorAppended)
        /\ state.current_step = "search_complete" =>
               \A k \in DOMAIN unit_call.reply : ~unit_call.reply[k].raised

\* C29: if the call of the language model fails in a Plan step the error
\* is appended to errors and the outcome is planning_failed;
\* planning_complete is the outcome only when the model answered.
C29_ModelFailureIsPlanningFailed ==
    unit_call.node = "plan" =>
        /\ unit_call.reply.raised =>
               (state.current_step = "planning_failed" /\ ErrorAppended)
        /\ state.current_step = "planning_complete" => ~unit_call.reply.raised

\* C30: if the call of the language model fails in a Reflexion step the
\* outcome is reflexion_failed, a message is appended to errors,
\* retry_count stays as it was and the run ends without another Plan step.
C30_ModelFailureIsReflexionFailed ==
    (unit_call.node = "reflexion" /\ unit_call.reply.raised) =>
        /\ state.current_step = "reflexion_failed"
        /\ ErrorAppended
        /\ state.retry_count = unit_in.state.retry_count
        /\ pc = "end"

\* C31: a Search step entered with an empty search_queries searches with
\* the research query as its single query; it does not end without a call
\* of the provider.
C31_EmptyQueriesFallBackToQuery ==
    (unit_call.node = "search" /\ unit_in.state.search_queries = <<>>) =>
        /\ SearchedQueries(unit_in.state) = <<unit_in.state.research_query>>
        /\ Len(unit_call.reply) = 1

\* The three checks of a source are safe
AllSafe(source) ==
    /\ validate_url(source.url).is_safe
    /\ moderate_content(source.content).is_safe
    /\ moderate_content(source.title).is_safe

\* C32: a Validate step that ends with validation_complete leaves in
\* sources, in their order, exactly the input sources whose URL check,
\* content check and title check are all safe; the checks of the i-th input
\* source (from 0) are at positions 3i, 3i+1, 3i+2 of the flat check list,
\* in the order URL, content, title.
C32_ValidateKeepsSafeSources ==
    [][(pc = "validate" /\ state'.current_step = "validation_complete") =>
          /\ state'.sources = SelectSeq(state.sources, AllSafe)
          /\ Len(state'.safety_checks) = 3 * Len(state.sources)
          /\ \A i \in DOMAIN state.sources :
                 /\ state'.safety_checks[3 * (i - 1) + 1] = validate_url(state.sources[i].url)
                 /\ state'.safety_checks[3 * (i - 1) + 2] =
                        moderate_content(state.sources[i].content)
                 /\ state'.safety_checks[3 * (i - 1) + 3] =
                        moderate_content(state.sources[i].title)]_vars

\* Validation dropped a source for its URL check and kept another
C32_Witness ==
    /\ steps # <<>> /\ steps[Len(steps)] = "validate"
    /\ state.current_step = "validation_complete"
    /\ state.sources # <<>>
    /\ Len(state.safety_checks) > 3 * Len(state.sources)
    /\ \E i \in 1..(Len(state.safety_checks) \div 3) :
           ~state.safety_checks[3 * (i - 1) + 1].is_safe

\* C33: the safety node sets is_safe to the verdict of the moderation of the
\* draft and appends that check to safety_checks; the step is completed
\* exactly when the check is safe, otherwise safety_failed with the flagged
\* content of the check appended to the warnings; when the validation raises,
\* the step is safety_validation_failed and is_safe is false
C33_SafetyCheckOutcome ==
    unit_call.node = "safety" =>
        IF unit_call.raised
        THEN /\ state.current_step = "safety_validation_failed"
             /\ state.is_safe = FALSE
        ELSE LET before == unit_in.state
                 check == moderate_content(before.draft)
             IN /\ state.is_safe = check.is_safe
                /\ state.safety_checks = Append(before.safety_checks, check)
                /\ (state.current_step = "completed") <=> check.is_safe
                /\ ~check.is_safe =>
                       /\ state.current_step = "safety_failed"
                       /\ state.warnings = before.warnings \o check.flagged_content

\* The safety node flagged a draft and added its flagged content to the warnings
C33_Witness ==
    /\ unit_call.node = "safety"
    /\ ~unit_call.raised
    /\ state.current_step = "safety_failed"
    /\ state.warnings # unit_in.state.warnings
    /\ Len(state.safety_checks) = Len(unit_in.state.safety_checks) + 1

\* C34: a Synthesize step entered with no sources does not call the language
\* model: it appends an error, sets the step to synthesis_failed and leaves
\* the draft as it was.
C34_NoSourcesNoSynthesis ==
    (unit_call.node = "synthesize" /\ unit_in.state.sources = <<>>) =>
        /\ unit_call.reply = <<>>
        /\ ErrorAppended
        /\ state.current_step = "synthesis_failed"
        /\ state.draft = unit_in.state.draft

\* A Synthesize step without sources failed and kept an earlier draft
C34_Witness ==
    /\ unit_call.node = "synthesize"
    /\ unit_in.state.sources = <<>>
    /\ unit_in.state.draft # <<>>
    /\ state.current_step = "synthesis_failed"

\* C35: Reflexion is never about to run in a state with retry_count =
\* max_retries (retry_count is below max_retries, so with max_retries = 0 it
\* never runs), and there max_retries_reached is the outcome only of a
\* reflexion output that does not recommend a retry.
C35_ReflexionOnlyWithRetriesLeft ==
    pc = "reflexion" =>
        /\ state.retry_count < state.max_retries
        /\ \A reply \in ReflexionReplies :
               LET call == perform_reflexion(state.research_query, state.draft,
                                             ErrorContext(state), reply)
                   r == reflexion_node(state, call)
               IN r.state.current_step = "max_retries_reached" =>
                      ~call.value.should_retry

\* Reflexion ran with a retry left and gave up on the advice of the model
C35_Witness ==
    /\ steps # <<>> /\ steps[Len(steps)] = "reflexion"
    /\ state.current_step = "max_retries_reached"
    /\ state.retry_count < state.max_retries

\* C36: the search tool calls the provider only after a token was
\* consumed: the calls of the provider never exceed the consume calls that
\* succeeded.
C36_ProviderCallsWithinConsumes ==
    provider_calls * Whole <= granted

\* The status changes of a request: ResearchStatus pending, running,
\* completed, failed
Moves == {<<"pending", "running">>, <<"running", "completed">>, <<"running", "failed">>}

\* The tasks created for a request
TasksOf(request_id) == {k \in DOMAIN background : background[k].request_id = request_id}

\* C37: the status of a request only moves from pending to running and from
\* running to completed or failed, on file and in memory; start_research
\* returns True only for a pending request, which it sets running and for
\* which it creates the one task, and otherwise returns False and changes
\* nothing; no request ever has more than one task; a completed or failed
\* request keeps its status.
C37_StatusOnlyAdvances ==
    /\ [](\A request_id \in DOMAIN request_files : Cardinality(TasksOf(request_id)) <= 1)
    /\ [][/\ \A request_id \in DOMAIN request_files :
               LET old == request_files[request_id].status
                   new == request_files'[request_id].status
                   kept == workers'[Manager].active_requests[request_id].status
               IN /\ kept = new
                  /\ old # new => <<old, new>> \in Moves
           /\ response'.endpoint = "start_research" =>
                  IF response'.result
                  THEN /\ response'.request \in DOMAIN request_files
                       /\ request_files[response'.request].status = "pending"
                       /\ request_files'[response'.request].status = "running"
                       /\ background' = Append(background, Task(response'.request))
                  ELSE UNCHANGED <<request_files, workers, background, audit_log, created>>
      ]_vars

\* start_research was refused for a request that had completed or failed
C37_Witness ==
    /\ response.endpoint = "start_research"
    /\ ~response.result
    /\ response.request \in DOMAIN request_files
    /\ request_files[response.request].status \in {"completed", "failed"}
    /\ TasksOf(response.request) # {}

\* The research_start entries of a request, and the entries of its end
Starts(request_id) ==
    {k \in DOMAIN audit_log : /\ audit_log[k].request_id = request_id
                              /\ audit_log[k].action = "research_start"}
Ends(request_id) ==
    {k \in DOMAIN audit_log : /\ audit_log[k].request_id = request_id
                              /\ audit_log[k].action \in {"research_complete",
                                                          "research_failed"}}

\* C38: every request created has exactly one research_start entry in the
\* audit log; a request has at most one research_complete or research_failed
\* entry, it comes after the research_start entry and agrees with the status
\* of the request (complete with completed, failed with failed), and a
\* request that has ended has one; every request that was started
\* eventually has exactly one such entry.
C38_AuditTrailOfRequests ==
    /\ [](\A request_id \in DOMAIN request_files :
             LET status == request_files[request_id].status
             IN /\ Cardinality(Starts(request_id)) = 1
                /\ Cardinality(Ends(request_id)) <= 1
                /\ \A k \in Ends(request_id) :
                       /\ \E j \in Starts(request_id) : j < k
                       /\ status = IF audit_log[k].action = "research_complete"
                                   THEN "completed" ELSE "failed"
                /\ status \in {"completed", "failed"} => Ends(request_id) # {})
    /\ [](\A k \in DOMAIN audit_log : audit_log[k].request_id \in DOMAIN request_files)
    /\ \A request_id \in 1..MaxRequests :
           TasksOf(request_id) # {} ~> Cardinality(Ends(request_id)) = 1

\* Two requests ended, one completed and one failed, the second created
\* ending first
C38_Witness ==
    /\ Len(audit_log) = 4
    /\ audit_log[3].request_id = 2
    /\ audit_log[3].action = "research_failed"
    /\ audit_log[4].request_id = 1
    /\ audit_log[4].action = "research_complete"

\* The query of the run contains a blocked keyword or matches a suspicious
\* pattern
FlaggedQuery == ~moderate_content(state.research_query).is_safe

\* C39: a run whose query contains a blocked keyword or matches a
\* suspicious pattern is never completed, in its state or in what it
\* returns, and each of its SafetyCheck steps reports safety_failed.
C39_FlaggedQueryNeverCompletes ==
    /\ [](FlaggedQuery =>
             /\ state.current_step # "completed"
             /\ ret.kind = "returned" => ret.state.current_step # "completed")
    /\ [][(pc = "safety" /\ FlaggedQuery /\ steps' = Append(steps, "safety")) =>
              state'.current_step = "safety_failed"]_vars

\* The summary of the model is clean and the draft failed the safety check
\* all the same
C39_Witness ==
    /\ FlaggedQuery
    /\ steps # <<>> /\ steps[Len(steps)] = "safety"
    /\ state.current_step = "safety_failed"
    /\ Contains(state.draft, (* "Agents plan and act." *) <<"A", "g", "e", "n", "t", "s", " ", "p", "l", "a", "n", " ", "a", "n", "d", " ", "a", "c", "t", ".">>)

\* C40: after any sequence of consume(n) calls, n >= 0, under a clock that
\* does not go back, the tokens of the bucket are within 0..capacity and
\* last_refill never decreases.
C40_TokensWithinCapacity ==
    /\ [](0 <= bucket.tokens /\ bucket.tokens <= bucket.capacity)
    /\ [][bucket'.last_refill >= bucket.last_refill]_vars

\* A consume(0) long after the last call filled the bucket up to its
\* capacity and no further
C40_Witness ==
    /\ callers.op = "consume"
    /\ callers.tokens = 0
    /\ callers.before.tokens + tokens_to_add(callers.before, callers.at) > bucket.capacity
    /\ callers.before.tokens < bucket.capacity
    /\ bucket.tokens = bucket.capacity
    /\ bucket.last_refill > callers.before.last_refill
=============================================================================
